---- MODULE Spec2Model ----
(***************************************************************************)
(* State-machine model of the rule interpreter's turn-sequential engines:  *)
(* BattleSystem (engine/battle.py), BindSequenceSystem                     *)
(* (engine/bind_sequence.py) and the Player record (engine/models.py).     *)
(*                                                                         *)
(* Every public operation runs to completion, so each is one action.  The  *)
(* body of an operation is an operator over a "world" record w that holds  *)
(* the mutable objects the operation can touch; the steps of the code are  *)
(* composed in the order the code runs them.  Random draws are explicit    *)
(* inputs (record rnd).  Fractions are integers in percent.                *)
(***************************************************************************)
EXTENDS Integers, Sequences, FiniteSets, TLC

VARIABLES player, inventory, status_effects, brands,
          battle_state, game_state, bind_state, last,
          flags, action_system, enemies, save_file

vars == <<player, inventory, status_effects, brands,
          battle_state, game_state, bind_state, last,
          flags, action_system, enemies, save_file>>

----------------------------------------------------------------------------
(* Bounds of the model *)

MaxTurn == 3
MaxItemCount == 1
MaxBindTurn == 6
MaxDamage == 8
MaxShield == 5

----------------------------------------------------------------------------
(* Program constants *)

SpMax == 100
HpMax == 80
MpMax == 50
PtMax == 100
ClimaxDamage == 20
DefaultDebuffRatio == 20
DefaultBaseDifficulty == 50
WaitBonus == 20
ResistFailPt == 10
ResistHardFailPt == 25

Min(a, b) == IF a <= b THEN a ELSE b
Max(a, b) == IF a >= b THEN a ELSE b

None == "none"

----------------------------------------------------------------------------
(* Definitions handed to the engines by the loader *)

NoAction == [type |-> None, spell |-> None, spell_pool |-> None,
             sequence |-> None, cooldown |-> 0]

BtAction(t) == [NoAction EXCEPT !.type = t]

NoTree == [type |-> None]

SuccubusTree ==
  [type |-> "priority_selector",
   children |-> <<
     [type |-> "sequence",
      conditions |-> << [type |-> "check_player_stat", stat |-> "SP",
                         operator |-> "<=", value |-> 0, skill |-> None],
                        [type |-> "cooldown_ready", stat |-> None,
                         operator |-> None, value |-> 0,
                         skill |-> "bind_attack"] >>,
      action |-> [NoAction EXCEPT !.type = "bind_attack",
                                  !.sequence = "vines", !.cooldown = 2]],
     [type |-> "sequence",
      conditions |-> << [type |-> "check_self_stat", stat |-> "hp",
                         operator |-> "<", value |-> 20, skill |-> None] >>,
      action |-> BtAction("defend")],
     [type |-> "weighted_random",
      options |-> << [weight |-> 1, action |-> BtAction("normal_attack")],
                     [weight |-> 1,
                      action |-> [NoAction EXCEPT !.type = "cast_spell",
                                                  !.spell = "charm"]],
                     [weight |-> 1,
                      action |-> [NoAction EXCEPT !.type = "cast_spell",
                                                  !.spell_pool = "curses"]],
                     [weight |-> 0, action |-> BtAction("defend")] >>] >>]

EnemyIds == {"golem", "succubus"}

(* a heavily armoured enemy, met only where the attack is studied *)
ArmoredIds == {"wall"}

(* an enemy whose every turn casts the PT-typed spell *)
CasterIds == {"imp"}

ImpTree ==
  [type |-> "sequence", conditions |-> << >>,
   action |-> [NoAction EXCEPT !.type = "cast_spell", !.spell = "lust"]]

(* an enemy that binds whenever its bind attack is ready and attacks     *)
(* otherwise                                                              *)
BinderIds == {"lasher"}

LasherTree ==
  [type |-> "priority_selector",
   children |-> <<
     [type |-> "sequence",
      conditions |-> << [type |-> "cooldown_ready", stat |-> None,
                         operator |-> None, value |-> 0,
                         skill |-> "bind_attack"] >>,
      action |-> [NoAction EXCEPT !.type = "bind_attack",
                                  !.sequence = "vines", !.cooldown = 3]] >>]

Enemies ==
  [e \in EnemyIds \cup ArmoredIds \cup CasterIds \cup BinderIds |->
     IF e = "lasher"
     THEN [id |-> e, hp |-> 200, atk |-> 10, defense |-> 0, matk |-> 0,
           initiative |-> 50, behavior_tree |-> LasherTree]
     ELSE IF e = "golem"
     THEN [id |-> e, hp |-> 25, atk |-> 100, defense |-> 10, matk |-> 15,
           initiative |-> 10, behavior_tree |-> NoTree]
     ELSE IF e = "wall"
     THEN [id |-> e, hp |-> 40, atk |-> 10, defense |-> 60, matk |-> 0,
           initiative |-> 5, behavior_tree |-> NoTree]
     ELSE IF e = "imp"
     THEN [id |-> e, hp |-> 90, atk |-> 10, defense |-> 0, matk |-> 0,
           initiative |-> 5, behavior_tree |-> ImpTree]
     ELSE [id |-> e, hp |-> 30, atk |-> 50, defense |-> 0, matk |-> 30,
           initiative |-> 60, behavior_tree |-> SuccubusTree]]

(* The mutable fields of the enemy templates the loader hands out: an     *)
(* Enemy built without current_hp takes its stats.hp (__post_init__).    *)
(* Enemy.events: the golem names a node for its defeat and one for the   *)
(* defeat of the player                                                   *)
EnemyEvents ==
  [e \in DOMAIN Enemies |->
     IF e = "golem" THEN [on_victory |-> "crypt", on_defeat |-> "hall"]
     ELSE [on_victory |-> None, on_defeat |-> None]]

InitEnemies ==
  [e \in DOMAIN Enemies |->
     [current_hp |-> Enemies[e].hp, cooldowns |-> << >>]]

NoEffect == [type |-> None, base |-> 0, scaling |-> FALSE,
             scaling_stat |-> "intelligence", ratio |-> 0, status |-> None,
             duration |-> 0, chance |-> 100, damage_type |-> None]

SpellIds == {"fire", "charm", "venom", "bolt", "lust"}

Spells ==
  [s \in SpellIds |->
     CASE s = "fire"  -> [mp |-> 30, effects |->
                            << [NoEffect EXCEPT !.type = "deal_damage",
                                                !.base = 20, !.scaling = TRUE,
                                                !.scaling_stat = "chisei",
                                                !.ratio = 50] >>]
       [] s = "charm" -> [mp |-> 0, effects |->
                            << [NoEffect EXCEPT !.type = "inflict_status",
                                                !.status = "charm",
                                                !.duration = 2,
                                                !.chance = 50] >>]
       [] s = "venom" -> [mp |-> 0, effects |->
                            << [NoEffect EXCEPT !.type = "inflict_status",
                                                !.status = "poison",
                                                !.duration = 2] >>]
       [] s = "bolt"  -> [mp |-> 0, effects |->
                            << [NoEffect EXCEPT !.type = "deal_damage",
                                                !.base = 55] >>]
       [] s = "lust"  -> [mp |-> 0, effects |->
                            << [NoEffect EXCEPT !.type = "deal_damage",
                                                !.damage_type = "pt",
                                                !.base = 30] >>]]

SpellPools ==
  [q \in {"curses"} |->
     << [weight |-> 1, value |-> "venom"], [weight |-> 1, value |-> "bolt"] >>]

(* status_effects table of BattleSystem: "poison" is defined, "charm" is not *)
StatusDefs ==
  [d \in {"poison"} |->
     [effects |-> << >>,
      tick_effects |-> << [type |-> "deal_damage", amount |-> 25] >>]]

ItemIds == {"incense"}

Items ==
  [i \in ItemIds |->
     [type |-> "consumable",
      effects |-> << [type |-> "modify_stat", stat |-> "PT",
                      operator |-> "+", value |-> 100] >>]]


(* DefaultChoiceOverride() *)
NoOverride == [enabled |-> TRUE, override_result |-> None,
               success_rate_modifier |-> 0]

(* an effect of a custom action: a dict read with these .get defaults *)
BindEffect(t) == [type |-> t, amount |-> 1, target |-> None, damage |-> 0,
                  damage_type |-> "physical", stat |-> None, operator |-> "+",
                  value |-> 0, stage |-> 0, flag |-> None]

(* a loop effect: an Effect object with the dataclass defaults *)
LoopEffect(t) == [type |-> t, target |-> None, stat |-> None,
                  operator |-> None, value |-> None, amount |-> 1,
                  damage |-> 0, damage_type |-> None]

CutAction ==
  [id |-> "cut",
   cost |-> << [stat |-> "mp", amount |-> 20] >>,
   success_check |-> [type |-> "fixed", rate |-> 50],
   on_success |-> << BindEffect("escape_bind") >>,
   on_failure |-> << [BindEffect("deal_damage") EXCEPT
                        !.target = "self", !.damage = 15,
                        !.damage_type = "pt"] >>]

(* a custom action without a success check whose cost has two components *)
TearAction ==
  [id |-> "tear",
   cost |-> << [stat |-> "mp", amount |-> 10],
               [stat |-> "hp", amount |-> 60] >>,
   success_check |-> [type |-> None, rate |-> 0],
   on_success |-> << BindEffect("message") >>,
   on_failure |-> << >>]

(* custom actions without cost or check that switch to another sequence: *)
(* flee names a sequence that is not defined, leap a defined one          *)
FleeAction ==
  [id |-> "flee",
   cost |-> << >>,
   success_check |-> [type |-> None, rate |-> 0],
   on_success |-> << [BindEffect("switch_bind_sequence") EXCEPT
                        !.target = "ghost", !.stage = 1] >>,
   on_failure |-> << >>]

LeapAction ==
  [id |-> "leap",
   cost |-> << >>,
   success_check |-> [type |-> None, rate |-> 0],
   on_success |-> << [BindEffect("switch_bind_sequence") EXCEPT
                        !.target = "vines", !.stage = 1] >>,
   on_failure |-> << >>]

(* a custom action paid with an item; the cost maps "item" to the item id *)
BurnAction ==
  [id |-> "burn",
   cost |-> << [stat |-> "item", amount |-> "incense"] >>,
   success_check |-> [type |-> None, rate |-> 0],
   on_success |-> << BindEffect("message") >>,
   on_failure |-> << >>]

BindStage(n, overrides, custom_actions, loop_effects) ==
  [stage |-> n, default_choices_override |-> overrides,
   custom_actions |-> custom_actions, loop_effects |-> loop_effects]

SequenceIds == {"vines", "web", "slime"}

(* vines: three stages, a custom action at stage 0, modifiers and forced    *)
(* results at stages 1 and 2; web: two stages whose last stage has a        *)
(* stage_progress loop effect; slime: one stage with a stage_regress loop   *)
(* effect.                                                                  *)
BindSequences ==
  [q \in SequenceIds |->
     CASE q = "vines" ->
            [config |-> [base_difficulty |-> DefaultBaseDifficulty,
                         loop_damage |-> [k \in {"pt"} |-> 10]],
             stages |-> <<
               BindStage(0, << >>, << CutAction, TearAction >>, << >>),
               BindStage(1,
                 [k \in {"resist", "resist_hard"} |->
                    IF k = "resist"
                    THEN [NoOverride EXCEPT !.success_rate_modifier = -60]
                    ELSE [NoOverride EXCEPT !.override_result = "auto_fail"]],
                 << >>, << >>),
               BindStage(2,
                 [k \in {"resist", "wait"} |->
                    IF k = "resist"
                    THEN [NoOverride EXCEPT !.success_rate_modifier = 50]
                    ELSE [NoOverride EXCEPT !.override_result = "auto_fail"]],
                 << >>,
                 << [LoopEffect("deal_damage") EXCEPT
                       !.target = "self", !.damage = 30] >>) >>]
       [] q = "web" ->
            [config |-> [base_difficulty |-> 35,
                         loop_damage |-> [k \in {"hp"} |-> 5]],
             stages |-> <<
               BindStage(0, << >>, << FleeAction, LeapAction, BurnAction >>,
                         << >>),
               BindStage(1,
                 [k \in {"resist"} |->
                    [NoOverride EXCEPT !.override_result = "auto_fail"]],
                 << >>, << LoopEffect("stage_progress") >>) >>]
       [] q = "slime" ->
            [config |-> [base_difficulty |-> DefaultBaseDifficulty,
                         loop_damage |-> << >>],
             stages |-> <<
               BindStage(0,
                 [k \in {"resist_hard"} |->
                    [NoOverride EXCEPT !.override_result = "auto_success"]],
                 << >>, << LoopEffect("stage_regress") >>) >>]]

(* Effect, Requirement and Action objects with the dataclass defaults; a *)
(* flag value is written as a string                                     *)
Effect(t) == [type |-> t, target |-> None, text |-> None, item |-> None,
              count |-> 1, flag |-> None, value |-> None, stat |-> None,
              operator |-> None, node |-> None, new_state |-> None,
              enemy |-> None, sequence |-> None, stage |-> 0,
              reason |-> None, amount |-> 1, damage |-> 0,
              damage_type |-> None]

Message(text) == [Effect("message") EXCEPT !.text = text]

Requirement(t) == [type |-> t, stat |-> None, flag |-> None, item |-> None,
                   operator |-> None, value |-> None, count |-> 1]

Action(id, type, target, requirements, effects) ==
  [id |-> id, type |-> type, target |-> target,
   requirements |-> requirements, effects |-> effects]

NodeIds == {"hall", "crypt"}

(* mod_info.entry_point *)
EntryPoint == "hall"

(* the hall in its state normal: the declared order of its actions *)
HallActions ==
  << Action("pray", "interact", None, << >>,
            << Message("kneel"),
               [Effect("set_flag") EXCEPT !.flag = "blessed",
                                          !.value = "true"],
               [Effect("modify_stat") EXCEPT !.stat = "PT", !.operator = "+",
                                             !.value = 30],
               Effect("shout"),
               Effect("whisper"),
               Message("rise") >>),
     Action("unlock", "interact", None,
            << [Requirement("item_check") EXCEPT !.item = "incense"] >>,
            << [Effect("change_node_state") EXCEPT !.new_state = "open"],
               Message("click") >>),
     Action("descend", "navigation", "crypt",
            << [Requirement("stat_check") EXCEPT !.stat = "pt",
                                                 !.operator = ">=",
                                                 !.value = 30],
               Requirement("moon_phase") >>,
            << Message("steps") >>),
     Action("ambush", "interact", None,
            << [Requirement("flag_check") EXCEPT !.flag = "blessed",
                                                 !.value = "true"] >>,
            << Message("rustle"),
               [Effect("navigation") EXCEPT !.target = "crypt"],
               Message("growl"),
               [Effect("battle") EXCEPT !.enemy = "golem"],
               Message("roar") >>),
     Action("trap", "interact", None, << >>,
            << Message("snap"),
               [Effect("switch_bind_sequence") EXCEPT !.target = "vines",
                                                      !.stage = 1],
               Message("coil") >>),
     Action("doom", "interact", None,
            << [Requirement("stat_check") EXCEPT !.stat = "pt",
                                                 !.operator = ">=",
                                                 !.value = 60],
               [Requirement("item_check") EXCEPT !.item = "incense"] >>,
            << [Effect("game_over") EXCEPT !.reason = "fell"],
               Message("dark") >>) >>

(* the hall in its state open *)
OpenHallActions ==
  << Action("snare", "interact", None, << >>,
            << [Effect("run_bind_sequence") EXCEPT !.sequence = "web"],
               Message("sticky") >>),
     Action("close", "interact", None, << >>,
            << [Effect("change_node_state") EXCEPT !.node = "hall",
                                                   !.new_state = "normal"] >>) >>

CryptActions ==
  << Action("return", "navigation", "hall", << >>, << >>) >>

Nodes ==
  [n \in NodeIds |->
     IF n = "hall"
     THEN [initial_state |-> "normal",
           states |-> [k \in {"normal", "open"} |->
                         [actions |-> IF k = "normal" THEN HallActions
                                      ELSE OpenHallActions]]]
     ELSE [initial_state |-> "normal",
           states |-> [k \in {"normal"} |-> [actions |-> CryptActions]]]]

(* the kinds a handler is registered under: a built-in one and a new one *)
HandlerKinds == {"message", "shout"}

----------------------------------------------------------------------------
(* Random inputs *)

ChanceRolls == {50, 51}
Jitters == {90, 100, 110}
EscapeRolls == {34, 85}
BindRolls == {1, 50, 51, 100}

NoRnd == [roll |-> 1, pool_roll |-> 1, chance |-> 50, pmiss |-> FALSE,
          emiss |-> FALSE, jitter |-> 100, esc |-> 0]

(* The draws of one enemy turn.  A draw is varied only where the turn can  *)
(* read it: the status chance after the charm spell was picked (roll 2),    *)
(* the pool draw and the miss check after the spell pool was picked.       *)
EnemyRnd ==
  {[NoRnd EXCEPT !.roll = 1]}
  \cup {[NoRnd EXCEPT !.roll = 2, !.chance = c] : c \in ChanceRolls}
  \cup {[NoRnd EXCEPT !.roll = 3, !.pool_roll = 1]}
  \cup {[NoRnd EXCEPT !.roll = 3, !.pool_roll = 2, !.emiss = m] :
          m \in BOOLEAN}

----------------------------------------------------------------------------
(* The world record: the mutable objects an operation can touch, plus the  *)
(* record of the call in progress (w.c), which only observes.              *)

(* ActionResult() *)
NoResult == [messages |-> << >>, navigation_target |-> None,
             battle_start |-> None, bind_sequence_start |-> None,
             game_over |-> FALSE, success |-> TRUE]

NoCall == [op |-> None, ev |-> << >>, arg |-> None, prevented |-> FALSE,
           enemy_turns |-> 0, escaped |-> FALSE, enemy_hp_after_action |-> 0,
           ret |-> <<0, 0>>, amount |-> 0, bypass |-> FALSE,
           sp0 |-> 0, hp0 |-> 0,
           climaxes |-> 0, climax_sp_before |-> 0, climax_sp_after |-> 0,
           climax_hp_before |-> 0, climax_hp_after |-> 0,
           climax_pt_after |-> 0, brands_added |-> 0,
           stage0 |-> 0, bonus0 |-> 0, stage_after_choice |-> 0,
           loops |-> 0, loop_effects |-> 0, ended |-> FALSE, noop |-> FALSE,
           rolled |-> None, action_id |-> None, branch |-> None, rate |-> 0,
           p0 |-> << >>, inv0 |-> << >>, p1 |-> << >>, inv1 |-> << >>,
           st0 |-> << >>, bs0 |-> << >>, gs0 |-> << >>, bd0 |-> << >>,
           not_found |-> 0, esc |-> 0,
           result |-> NoResult, available |-> << >>,
           fl0 |-> << >>, as0 |-> << >>,
           typed_hits |-> << >>, created |-> << >>, roll |-> 0,
           mem0 |-> << >>,
           listed_by |-> None, handled_by |-> None, entry |-> None,
           ticked |-> 0, bind_attack |-> None, emitted |-> << >>,
           raised |-> None]

World == [p |-> player, inv |-> inventory, st |-> status_effects,
          br |-> brands, bs |-> battle_state, gs |-> game_state,
          bd |-> bind_state, c |-> last,
          fl |-> flags, as |-> action_system, en |-> enemies,
          sf |-> save_file]

Commit(w) ==
  /\ player' = w.p
  /\ inventory' = w.inv
  /\ status_effects' = w.st
  /\ brands' = w.br
  /\ battle_state' = w.bs
  /\ game_state' = w.gs
  /\ bind_state' = w.bd
  /\ last' = w.c
  /\ flags' = w.fl
  /\ action_system' = w.as
  /\ enemies' = w.en
  /\ save_file' = w.sf

Ev(w, e) == [w EXCEPT !.c.ev = Append(@, e)]

Begin(w, op, arg) ==
  [w EXCEPT !.c = [NoCall EXCEPT !.op = op, !.arg = arg]]

----------------------------------------------------------------------------
(* models.py *)

CombatStatNames == {"sp", "hp", "mp", "pt"}
AbilityStatNames == {"sanity", "strength", "focus", "intelligence",
                     "knowledge", "dexterity"}

(* STAT_NAME_MAP; the six Japanese tokens are written in romaji *)
STAT_NAME_MAP ==
  [t \in {"seiki", "kinryoku", "shuuchuu", "chisei", "chishiki", "kiyou",
          "SP", "HP", "MP", "PT"} |->
     CASE t = "seiki" -> "sanity"
       [] t = "kinryoku" -> "strength"
       [] t = "shuuchuu" -> "focus"
       [] t = "chisei" -> "intelligence"
       [] t = "chishiki" -> "knowledge"
       [] t = "kiyou" -> "dexterity"
       [] t = "SP" -> "sp"
       [] t = "HP" -> "hp"
       [] t = "MP" -> "mp"
       [] t = "PT" -> "pt"]

normalize_stat_name(stat) ==
  IF stat \in DOMAIN STAT_NAME_MAP THEN STAT_NAME_MAP[stat] ELSE stat

InitPlayer == [sp |-> SpMax, hp |-> HpMax, mp |-> MpMax, pt |-> 0,
               sanity |-> 70, strength |-> 50, focus |-> 60,
               intelligence |-> 65, knowledge |-> 55, dexterity |-> 45]

StatMax(stat) ==
  CASE stat = "sp" -> SpMax
    [] stat = "hp" -> HpMax
    [] stat = "mp" -> MpMax
    [] stat = "pt" -> PtMax
    [] OTHER -> 100

is_action_prevented(st) ==
  \E i \in 1..Len(st) :
    \E j \in 1..Len(st[i].effects) : st[i].effects[j].type = "prevent_action"

has_brand(br, enemy_id) == \E i \in 1..Len(br) : br[i].enemy_id = enemy_id

get_brand_debuff(br, enemy_id) ==
  IF has_brand(br, enemy_id)
  THEN br[CHOOSE i \in 1..Len(br) :
            /\ br[i].enemy_id = enemy_id
            /\ \A j \in 1..(i - 1) : br[j].enemy_id # enemy_id].debuff_ratio
  ELSE 0

(* add_brand without the has_brand guard *)
add_brand_unguarded(br, enemy_id, debuff_ratio) ==
  Append(br, [enemy_id |-> enemy_id, debuff_ratio |-> debuff_ratio])

add_brand(br, enemy_id, debuff_ratio) ==
  IF ~has_brand(br, enemy_id)
  THEN Append(br, [enemy_id |-> enemy_id, debuff_ratio |-> debuff_ratio])
  ELSE br

remove_brand(br, enemy_id) ==
  IF has_brand(br, enemy_id)
  THEN LET i == CHOOSE k \in 1..Len(br) :
                  /\ br[k].enemy_id = enemy_id
                  /\ \A j \in 1..(k - 1) : br[j].enemy_id # enemy_id
       IN SubSeq(br, 1, i - 1) \o SubSeq(br, i + 1, Len(br))
  ELSE br

----------------------------------------------------------------------------
(* battle.py *)

NoBattle == [exists |-> FALSE, enemy |-> None, enemy_hp |-> 0,
             cooldowns |-> << >>, turn |-> 1,
             player_defending |-> FALSE, enemy_defending |-> FALSE,
             is_over |-> FALSE, player_won |-> FALSE,
             player_turn_first |-> TRUE, climax_defeat |-> FALSE]

compare(actual, operator, expected) ==
  CASE operator = "==" -> actual = expected
    [] operator = "!=" -> actual # expected
    [] operator = ">=" -> actual >= expected
    [] operator = "<=" -> actual <= expected
    [] operator = ">" -> actual > expected
    [] operator = "<" -> actual < expected
    [] OTHER -> FALSE

get_player_stat(w, stat0) ==
  LET stat == normalize_stat_name(stat0) IN
  CASE stat \in CombatStatNames \cup AbilityStatNames -> w.p[stat]
    [] stat = "sp_max" -> SpMax
    [] stat = "hp_max" -> HpMax
    [] stat = "mp_max" -> MpMax
    [] stat = "pt_max" -> PtMax
    [] OTHER -> 0

set_player_stat(w, stat0, value) ==
  LET stat == normalize_stat_name(stat0) IN
  IF stat \in CombatStatNames \cup AbilityStatNames
  THEN [w EXCEPT !.p[stat] = Max(0, Min(StatMax(stat), value))]
  ELSE w

get_ability_stat(w, stat0) ==
  LET stat == normalize_stat_name(stat0) IN
  IF stat \in AbilityStatNames THEN w.p[stat] ELSE 50

(* _deal_damage_to_player with the absorbed part also taken from HP *)
deal_damage_unsplit(w, damage, bypass_shield) ==
  IF bypass_shield \/ w.p.sp <= 0
  THEN [w EXCEPT !.p.hp = @ - damage, !.c.ret = <<0, damage>>]
  ELSE LET shield_damage == Min(damage, w.p.sp)
       IN [w EXCEPT !.p.sp = @ - shield_damage,
                    !.p.hp = @ - damage,
                    !.c.ret = <<shield_damage, damage>>]

deal_damage_to_player(w, damage, bypass_shield) ==
  IF bypass_shield \/ w.p.sp <= 0
  THEN [w EXCEPT !.p.hp = @ - damage, !.c.ret = <<0, damage>>]
  ELSE LET shield_damage == Min(damage, w.p.sp)
           remaining_damage == damage - shield_damage
       IN [w EXCEPT !.p.sp = @ - shield_damage,
                    !.p.hp = IF remaining_damage > 0
                             THEN @ - remaining_damage ELSE @,
                    !.c.ret = <<shield_damage, remaining_damage>>]

(* returns the world after the check; the boolean result is w.c.ret[1] = 1 *)
check_player_defeat(w) ==
  IF w.p.pt >= PtMax
  THEN LET w1 == [w EXCEPT !.p.hp = @ - ClimaxDamage, !.p.pt = 0]
           w2 == [w1 EXCEPT !.c.climaxes = @ + 1,
                            !.c.climax_sp_before = w.p.sp,
                            !.c.climax_sp_after = w1.p.sp,
                            !.c.climax_hp_before = w.p.hp,
                            !.c.climax_hp_after = w1.p.hp,
                            !.c.climax_pt_after = w1.p.pt]
       IN IF w2.p.hp <= 0
          THEN [w2 EXCEPT !.bs.climax_defeat = IF w.bs.exists THEN TRUE ELSE @,
                          !.c.ret = <<1, 0>>]
          ELSE [w2 EXCEPT !.c.ret = <<IF w2.p.hp <= 0 THEN 1 ELSE 0, 0>>]
  ELSE [w EXCEPT !.c.ret = <<IF w.p.hp <= 0 THEN 1 ELSE 0, 0>>]

Defeated(w) == w.c.ret[1] = 1

RECURSIVE TickDamage(_)
TickDamage(ticks) ==
  IF ticks = << >> THEN 0
  ELSE (IF Head(ticks).type = "deal_damage" THEN Head(ticks).amount ELSE 0)
       + TickDamage(Tail(ticks))

RECURSIVE StatusTickDamage(_)
StatusTickDamage(st) ==
  IF st = << >> THEN 0
  ELSE TickDamage(Head(st).tick_effects) + StatusTickDamage(Tail(st))

process_status_ticks(w) ==
  [w EXCEPT !.p.hp = @ - StatusTickDamage(w.st),
            !.c.ticked = @ + Len(w.st)]

update_status_durations(w) ==
  LET dec == [i \in 1..Len(w.st) |->
                [w.st[i] EXCEPT !.remaining_turns = @ - 1]]
  IN [w EXCEPT !.st = SelectSeq(dec, LAMBDA s : s.remaining_turns > 0)]

(* _advance_turn without the update of the status durations *)
advance_turn_keeps_durations(w) == [w EXCEPT !.bs.turn = @ + 1]

advance_turn(w) ==
  update_status_durations([w EXCEPT !.bs.turn = @ + 1])

(* int(x * pct / 100) for x >= 0 *)
Scale(x, pct) == (x * pct) \div 100

player_attack(w, jitter) ==
  LET e == Enemies[w.bs.enemy]
      base0 == 20 + w.p.strength \div 5
      brand_debuff == get_brand_debuff(w.br, e.id)
      base_damage == IF brand_debuff > 0
                     THEN Scale(base0, 100 - brand_debuff) ELSE base0
      defense == IF w.bs.enemy_defending THEN e.defense * 2 ELSE e.defense
      damage == Scale(Max(1, base_damage - defense \div 2), jitter)
  IN [w EXCEPT !.bs.enemy_hp = @ - damage]

apply_item_effect(w, effect) ==
  IF effect.type = "modify_stat"
  THEN LET current == get_player_stat(w, effect.stat)
           new_value == CASE effect.operator = "+" -> current + effect.value
                          [] effect.operator = "-" -> current - effect.value
                          [] effect.operator = "=" -> effect.value
                          [] OTHER -> current
       IN set_player_stat(w, effect.stat, new_value)
  ELSE IF effect.type = "cure_status"
  THEN IF effect.value # None
       THEN [w EXCEPT !.st = SelectSeq(@, LAMBDA s : s.id # effect.value)]
       ELSE [w EXCEPT !.st = << >>]
  ELSE w

RECURSIVE apply_item_effects(_, _)
apply_item_effects(w, effects) ==
  IF effects = << >> THEN w
  ELSE apply_item_effects(apply_item_effect(w, Head(effects)), Tail(effects))

InvCount(inv, item_id) == IF item_id \in DOMAIN inv THEN inv[item_id] ELSE 0

use_item(w, item_id) ==
  IF InvCount(w.inv, item_id) <= 0 THEN w
  ELSE IF item_id \notin DOMAIN Items THEN w
  ELSE LET n == w.inv[item_id] - 1
           inv1 == IF n <= 0
                   THEN [k \in (DOMAIN w.inv) \ {item_id} |-> w.inv[k]]
                   ELSE [w.inv EXCEPT ![item_id] = n]
       IN apply_item_effects([w EXCEPT !.inv = inv1], Items[item_id].effects)

RECURSIVE SumWeights(_)
SumWeights(options) ==
  IF options = << >> THEN 0
  ELSE Head(options).weight + SumWeights(Tail(options))

(* random.randint(1, total) from a draw r >= 1 *)
RandInt(r, total) == ((r - 1) % total) + 1

(* index of the first option whose cumulative weight reaches roll; 0 if none *)
RECURSIVE PickIndex(_, _, _, _)
PickIndex(options, roll, i, cumulative) ==
  IF i > Len(options) THEN 0
  ELSE IF roll <= cumulative + options[i].weight THEN i
  ELSE PickIndex(options, roll, i + 1, cumulative + options[i].weight)

select_from_spell_pool(pool_id, r) ==
  IF pool_id \notin DOMAIN SpellPools \/ SpellPools[pool_id] = << >>
  THEN None
  ELSE LET options == SpellPools[pool_id]
           total_weight == SumWeights(options)
       IN IF total_weight = 0
          THEN options[RandInt(r, Len(options))].value
          ELSE LET i == PickIndex(options, RandInt(r, total_weight), 1, 0)
               IN IF i > 0 THEN options[i].value
                  ELSE options[Len(options)].value

check_behavior_condition(w, condition) ==
  CASE condition.type = "check_player_stat" ->
         LET stat == normalize_stat_name(condition.stat)
             actual == IF stat \in CombatStatNames THEN w.p[stat]
                       ELSE IF stat \in {"sp_max", "hp_max", "mp_max", "pt_max"}
                       THEN get_player_stat(w, stat) ELSE 0
         IN compare(actual, condition.operator, condition.value)
    [] condition.type = "check_self_stat" ->
         LET e == Enemies[w.bs.enemy]
             actual == IF condition.stat = "hp" THEN w.bs.enemy_hp
                       ELSE IF condition.stat \in {"atk", "defense", "matk",
                                                   "initiative"}
                       THEN e[condition.stat] ELSE 0
         IN compare(actual, condition.operator, condition.value)
    [] condition.type = "cooldown_ready" ->
         condition.skill \notin DOMAIN w.bs.cooldowns
    [] OTHER -> TRUE

RECURSIVE evaluate_behavior_tree(_, _, _)
RECURSIVE FirstChildResult(_, _, _)
FirstChildResult(w, children, rnd) ==
  IF children = << >> THEN NoAction
  ELSE LET result == evaluate_behavior_tree(w, Head(children), rnd)
       IN IF result # NoAction THEN result
          ELSE FirstChildResult(w, Tail(children), rnd)

evaluate_behavior_tree(w, node, rnd) ==
  CASE node.type = "priority_selector" ->
         FirstChildResult(w, node.children, rnd)
    [] node.type = "sequence" ->
         IF \A i \in 1..Len(node.conditions) :
              check_behavior_condition(w, node.conditions[i])
         THEN node.action ELSE NoAction
    [] node.type = "weighted_random" ->
         LET total_weight == SumWeights(node.options)
         IN IF total_weight = 0 THEN NoAction
            ELSE LET i == PickIndex(node.options,
                                    RandInt(rnd.roll, total_weight), 1, 0)
                 IN IF i > 0 THEN node.options[i].action ELSE NoAction
    [] OTHER -> NoAction

enemy_attack(w) ==
  LET atk == Enemies[w.bs.enemy].atk
      base_damage == IF w.bs.player_defending THEN atk \div 2 ELSE atk
  IN deal_damage_to_player(w, base_damage, FALSE)

NewStatus(effect) ==
  IF effect.status \in DOMAIN StatusDefs
  THEN [id |-> effect.status, remaining_turns |-> effect.duration,
        effects |-> StatusDefs[effect.status].effects,
        tick_effects |-> StatusDefs[effect.status].tick_effects]
  ELSE [id |-> effect.status, remaining_turns |-> effect.duration,
        effects |-> IF effect.status = "charm"
                    THEN << [type |-> "prevent_action"] >> ELSE << >>,
        tick_effects |-> << >>]

apply_spell_effect(w, effect, is_player, rnd) ==
  CASE effect.type = "deal_damage" ->
         LET stat_value == IF is_player
                           THEN get_ability_stat(w, effect.scaling_stat)
                           ELSE Enemies[w.bs.enemy].matk
             base == IF effect.scaling
                     THEN effect.base + Scale(stat_value, effect.ratio)
                     ELSE effect.base
             miss == IF is_player THEN rnd.pmiss ELSE rnd.emiss
         IN IF miss THEN w
            ELSE IF is_player
            THEN LET d0 == Enemies[w.bs.enemy].defense \div 2
                     defense == IF w.bs.enemy_defending THEN d0 * 2 ELSE d0
                 IN [w EXCEPT !.bs.enemy_hp = @ - Max(1, base - defense)]
            ELSE LET defending == w.bs.player_defending
                     d1 == Max(1, base - (IF defending THEN 5 ELSE 0))
                     damage == IF defending THEN d1 \div 2 ELSE d1
                     w1 == deal_damage_to_player(w, damage, FALSE)
                 IN IF effect.damage_type = None THEN w1
                    ELSE [w1 EXCEPT !.c.typed_hits =
                            Append(@, [damage_type |-> effect.damage_type,
                                       damage |-> damage,
                                       before |-> w.p, after |-> w1.p])]
    [] effect.type = "heal" ->
         LET base == IF effect.scaling /\ is_player
                     THEN effect.base
                          + Scale(get_ability_stat(w, effect.scaling_stat),
                                  effect.ratio)
                     ELSE effect.base
         IN IF is_player
            THEN [w EXCEPT !.p.hp = Min(HpMax, @ + base)]
            ELSE w
    [] effect.type = "inflict_status" ->
         IF rnd.chance <= effect.chance /\ ~is_player
         THEN [w EXCEPT !.st = Append(@, NewStatus(effect))]
         ELSE w
    [] OTHER -> w

RECURSIVE apply_spell_effects(_, _, _, _)
apply_spell_effects(w, effects, is_player, rnd) ==
  IF effects = << >> THEN w
  ELSE apply_spell_effects(apply_spell_effect(w, Head(effects), is_player, rnd),
                           Tail(effects), is_player, rnd)

cast_spell(w, spell_id, is_player, rnd) ==
  IF spell_id \notin DOMAIN Spells THEN w
  ELSE LET spell == Spells[spell_id] IN
       IF is_player /\ w.p.mp < spell.mp THEN w
       ELSE LET w1 == IF is_player THEN [w EXCEPT !.p.mp = @ - spell.mp] ELSE w
            IN apply_spell_effects(w1, spell.effects, is_player, rnd)

execute_enemy_action(w, action, rnd) ==
  CASE action.type = "normal_attack" -> enemy_attack(w)
    [] action.type = "defend" -> [w EXCEPT !.bs.enemy_defending = TRUE]
    [] action.type = "cast_spell" ->
         LET spell_id == IF action.spell_pool # None /\ action.spell = None
                         THEN select_from_spell_pool(action.spell_pool,
                                                     rnd.pool_roll)
                         ELSE action.spell
         IN IF spell_id # None THEN cast_spell(w, spell_id, FALSE, rnd) ELSE w
    [] action.type = "bind_attack" ->
         IF w.p.sp > 0 THEN [w EXCEPT !.c.bind_attack = "blocked"]
         ELSE [w EXCEPT
                 !.bs.cooldowns =
                    [k \in (DOMAIN @) \cup {"bind_attack"} |->
                       IF k = "bind_attack" THEN action.cooldown ELSE @[k]],
                 !.c.bind_attack = "fired",
                 !.gs.in_bind_sequence = TRUE,
                 !.gs.current_bind_sequence = action.sequence,
                 !.gs.current_bind_stage = 0]
    [] OTHER -> w

(* _enemy_turn removing a cooldown one turn late, below 0 *)
enemy_turn_late_removal(w, rnd) ==
  LET cd == w.bs.cooldowns
      keep == {k \in DOMAIN cd : cd[k] - 1 >= 0}
      w1 == [w EXCEPT !.bs.enemy_defending = FALSE,
                      !.bs.cooldowns = [k \in keep |-> cd[k] - 1],
                      !.c.enemy_turns = @ + 1,
                      !.c.ev = Append(@, "enemy_turn")]
      tree == Enemies[w.bs.enemy].behavior_tree
      action == IF tree # NoTree THEN evaluate_behavior_tree(w1, tree, rnd)
                ELSE NoAction
  IN IF action # NoAction THEN execute_enemy_action(w1, action, rnd)
     ELSE enemy_attack(w1)

enemy_turn(w, rnd) ==
  LET cd == w.bs.cooldowns
      keep == {k \in DOMAIN cd : cd[k] - 1 > 0}
      w1 == [w EXCEPT !.bs.enemy_defending = FALSE,
                      !.bs.cooldowns = [k \in keep |-> cd[k] - 1],
                      !.c.enemy_turns = @ + 1,
                      !.c.ev = Append(@, "enemy_turn")]
      tree == Enemies[w.bs.enemy].behavior_tree
      action == IF tree # NoTree THEN evaluate_behavior_tree(w1, tree, rnd)
                ELSE NoAction
  IN IF action # NoAction THEN execute_enemy_action(w1, action, rnd)
     ELSE enemy_attack(w1)

(* the end-of-battle callback belongs to the orchestrator and is not set here *)
end_battle(w, player_won, escaped) ==
  [w EXCEPT !.bs.is_over = IF w.bs.exists THEN TRUE ELSE @,
            !.bs.player_won = IF w.bs.exists THEN player_won ELSE @,
            !.gs.in_battle = FALSE,
            !.gs.current_enemy = None,
            !.c.escaped = escaped]

handle_enemy_defeat(w) == end_battle(Ev(w, "victory"), TRUE, FALSE)

handle_player_defeat(w) ==
  LET e == w.bs.enemy
      w1 == IF w.bs.climax_defeat /\ ~has_brand(w.br, e)
            THEN [w EXCEPT !.br = add_brand(@, e, DefaultDebuffRatio),
                           !.c.brands_added = @ + 1]
            ELSE w
  IN end_battle([Ev(w1, "defeat") EXCEPT !.gs.game_over = TRUE], FALSE, FALSE)

(* the turn order decided with > in place of >= *)
player_first_strict(w, enemy_id) ==
  w.p.dexterity > Enemies[enemy_id].initiative

player_first(w, enemy_id) ==
  w.p.dexterity >= Enemies[enemy_id].initiative

(* start_battle fighting the template object itself instead of a copy:  *)
(* what the previous battle did to its enemy is found again in the       *)
(* template when the next battle starts.                                 *)
start_battle_shared(w0, enemy_id, rnd) ==
  LET w == [Begin(w0, "start_battle", enemy_id) EXCEPT !.c.bs0 = w0.bs]
      first == player_first(w, enemy_id)
      en == IF w0.bs.exists
            THEN [w0.en EXCEPT ![w0.bs.enemy] =
                    [current_hp |-> w0.bs.enemy_hp,
                     cooldowns |-> w0.bs.cooldowns]]
            ELSE w0.en
      w1 == [w EXCEPT !.bs = [NoBattle EXCEPT
                                !.exists = TRUE,
                                !.enemy = enemy_id,
                                !.enemy_hp = en[enemy_id].current_hp,
                                !.cooldowns = en[enemy_id].cooldowns,
                                !.player_turn_first = first],
                      !.en = en,
                      !.gs.in_battle = TRUE,
                      !.gs.current_enemy = enemy_id,
                      !.c.created = [current_hp |-> en[enemy_id].current_hp,
                                     cooldowns |-> en[enemy_id].cooldowns]]
  IN IF first THEN w1
     ELSE LET w2 == check_player_defeat(Ev(enemy_turn(w1, rnd), "defeat_check"))
          IN IF Defeated(w2) THEN handle_player_defeat(w2) ELSE w2

start_battle(w0, enemy_id, rnd) ==
  LET w == [Begin(w0, "start_battle", enemy_id) EXCEPT !.c.bs0 = w0.bs]
      first == player_first(w, enemy_id)
      battle_enemy == [current_hp |-> Enemies[enemy_id].hp,
                       cooldowns |-> << >>]
      w1 == [w EXCEPT !.bs = [NoBattle EXCEPT
                                !.exists = TRUE,
                                !.enemy = enemy_id,
                                !.enemy_hp = battle_enemy.current_hp,
                                !.cooldowns = battle_enemy.cooldowns,
                                !.player_turn_first = first],
                      !.gs.in_battle = TRUE,
                      !.gs.current_enemy = enemy_id,
                      !.c.created = battle_enemy]
  IN IF first THEN w1
     ELSE LET w2 == check_player_defeat(Ev(enemy_turn(w1, rnd), "defeat_check"))
          IN IF Defeated(w2) THEN handle_player_defeat(w2) ELSE w2

PlayerAction(t) == [type |-> t, spell_id |-> None, item_id |-> None]

(* the chosen action of execute_player_action, up to the enemy-defeat check *)
(* the escape chance left as computed, without the clamp *)
escape_chance_unclamped(dexterity, initiative) ==
  50 + (dexterity - initiative)

(* escape_chance in percent: 0.5 + (dexterity - initiative) * 0.01, clamped *)
escape_chance(dexterity, initiative) ==
  Max(10, Min(90, 50 + (dexterity - initiative)))

chosen_action(w, a, rnd) ==
  CASE a.type = "attack" -> player_attack(w, rnd.jitter)
    [] a.type = "defend" -> [w EXCEPT !.bs.player_defending = TRUE]
    [] a.type = "spell" ->
         IF a.spell_id # None THEN cast_spell(w, a.spell_id, TRUE, rnd) ELSE w
    [] a.type = "item" ->
         IF a.item_id # None THEN use_item(w, a.item_id) ELSE w
    [] a.type = "escape" ->
         LET chance == escape_chance(w.p.dexterity,
                                     Enemies[w.bs.enemy].initiative)
             w1 == [w EXCEPT !.c.rate = chance, !.c.esc = rnd.esc]
         IN IF rnd.esc < chance
            THEN end_battle(Ev(w1, "escaped"), FALSE, TRUE)
            ELSE w1
    [] OTHER -> w

(* execute_player_action with the enemy turn ahead of the enemy-defeat check *)
(* the state the call starts from, kept with the record of the call *)
BeginAction(w0, a) ==
  [Begin(w0, "execute_player_action", a.type)
     EXCEPT !.c.p0 = w0.p, !.c.inv0 = w0.inv, !.c.st0 = w0.st,
            !.c.bs0 = w0.bs,
            !.c.action_id = IF a.type = "spell" THEN a.spell_id
                            ELSE IF a.type = "item" THEN a.item_id
                            ELSE None]

(* execute_player_action whose prevented branch leaves out the enemy turn *)
execute_player_action_no_enemy_turn(w0, a, rnd) ==
  IF ~w0.bs.exists THEN [Begin(w0, "execute_player_action", a.type)
                           EXCEPT !.c.noop = TRUE]
  ELSE
  LET w == BeginAction(w0, a)
      w1 == Ev(process_status_ticks(w), "ticks")
  IN IF is_action_prevented(w1.st)
     THEN LET w2 == [w1 EXCEPT !.c.prevented = TRUE]
              w3 == check_player_defeat(Ev(w2, "defeat_check"))
          IN IF Defeated(w3) THEN handle_player_defeat(w3)
             ELSE Ev(advance_turn(w3), "advance")
     ELSE LET w2 == [w1 EXCEPT !.bs.player_defending = FALSE]
              w3 == chosen_action(Ev(w2, "action"), a, rnd)
              w4 == [w3 EXCEPT !.c.enemy_hp_after_action = w3.bs.enemy_hp]
          IN IF w4.c.escaped THEN w4
             ELSE LET w5 == Ev(w4, "enemy_check")
                  IN IF w5.bs.enemy_hp <= 0 THEN handle_enemy_defeat(w5)
                     ELSE LET w6 == check_player_defeat(
                                      Ev(enemy_turn(w5, rnd), "defeat_check"))
                          IN IF Defeated(w6) THEN handle_player_defeat(w6)
                             ELSE Ev(advance_turn(w6), "advance")

execute_player_action_late_check(w0, a, rnd) ==
  IF ~w0.bs.exists THEN [Begin(w0, "execute_player_action", a.type)
                           EXCEPT !.c.noop = TRUE]
  ELSE
  LET w == BeginAction(w0, a)
      w1 == Ev(process_status_ticks(w), "ticks")
  IN IF is_action_prevented(w1.st)
     THEN LET w2 == [w1 EXCEPT !.c.prevented = TRUE]
              w3 == check_player_defeat(Ev(enemy_turn(w2, rnd), "defeat_check"))
          IN IF Defeated(w3) THEN handle_player_defeat(w3)
             ELSE Ev(advance_turn(w3), "advance")
     ELSE LET w2 == [w1 EXCEPT !.bs.player_defending = FALSE]
              w3 == chosen_action(Ev(w2, "action"), a, rnd)
              w4 == [w3 EXCEPT !.c.enemy_hp_after_action = w3.bs.enemy_hp]
          IN IF w4.c.escaped THEN w4
             ELSE LET w5 == Ev(enemy_turn(w4, rnd), "enemy_check")
                  IN IF w5.bs.enemy_hp <= 0 THEN handle_enemy_defeat(w5)
                     ELSE LET w6 == check_player_defeat(Ev(w5, "defeat_check"))
                          IN IF Defeated(w6) THEN handle_player_defeat(w6)
                             ELSE Ev(advance_turn(w6), "advance")

execute_player_action(w0, a, rnd) ==
  IF ~w0.bs.exists THEN [Begin(w0, "execute_player_action", a.type)
                           EXCEPT !.c.noop = TRUE]
  ELSE
  LET w == BeginAction(w0, a)
      w1 == Ev(process_status_ticks(w), "ticks")
  IN IF is_action_prevented(w1.st)
     THEN LET w2 == [w1 EXCEPT !.c.prevented = TRUE]
              w3 == check_player_defeat(Ev(enemy_turn(w2, rnd), "defeat_check"))
          IN IF Defeated(w3) THEN handle_player_defeat(w3)
             ELSE Ev(advance_turn(w3), "advance")
     ELSE LET w2 == [w1 EXCEPT !.bs.player_defending = FALSE]
              w3 == chosen_action(Ev(w2, "action"), a, rnd)
              w4 == [w3 EXCEPT !.c.enemy_hp_after_action = w3.bs.enemy_hp]
          IN IF w4.c.escaped THEN w4
             ELSE LET w5 == Ev(w4, "enemy_check")
                  IN IF w5.bs.enemy_hp <= 0 THEN handle_enemy_defeat(w5)
                     ELSE LET w6 == check_player_defeat(
                                      Ev(enemy_turn(w5, rnd), "defeat_check"))
                          IN IF Defeated(w6) THEN handle_player_defeat(w6)
                             ELSE Ev(advance_turn(w6), "advance")

(* actions.py get_item effect: ActionSystem._add_item *)
add_item(w, item_id, count) ==
  [w EXCEPT !.inv = [k \in (DOMAIN @) \cup {item_id} |->
                       IF k = item_id THEN InvCount(@, item_id) + count
                       ELSE @[k]]]

----------------------------------------------------------------------------
(* bind_sequence.py *)

NoBind == [exists |-> FALSE, sequence |-> None, current_stage |-> 0,
           turn |-> 1, next_turn_bonus |-> 0, escaped |-> FALSE,
           failed |-> FALSE]

NoStage == [stage |-> None]

get_current_stage(w) ==
  IF ~w.bd.exists THEN NoStage
  ELSE LET stages == BindSequences[w.bd.sequence].stages
           found == {i \in 1..Len(stages) :
                       stages[i].stage = w.bd.current_stage}
       IN IF found = {} THEN NoStage
          ELSE stages[CHOOSE i \in found : \A j \in found : i <= j]

start_sequence(w, sequence_id, start_stage) ==
  IF sequence_id \notin DOMAIN BindSequences
  THEN [w EXCEPT !.c.not_found = @ + 1]
  ELSE [w EXCEPT !.bd = [NoBind EXCEPT !.exists = TRUE,
                                       !.sequence = sequence_id,
                                       !.current_stage = start_stage],
                 !.gs.in_bind_sequence = TRUE,
                 !.gs.current_bind_sequence = sequence_id,
                 !.gs.current_bind_stage = start_stage]

(* stage.default_choices_override.get(choice, DefaultChoiceOverride()) *)
get_override(stage, choice) ==
  IF choice \in DOMAIN stage.default_choices_override
  THEN stage.default_choices_override[choice] ELSE NoOverride

(* _calculate_success_rate without the clamp *)
calculate_success_rate_unclamped(w, base_rate, modifier) ==
  [w EXCEPT !.bd.next_turn_bonus = 0,
            !.c.rate = base_rate + modifier + w.bd.next_turn_bonus]

(* returns the world after the call; the returned rate is w.c.rate *)
calculate_success_rate(w, base_rate, modifier) ==
  LET rate == base_rate + modifier + w.bd.next_turn_bonus
  IN [w EXCEPT !.bd.next_turn_bonus = 0,
               !.c.rate = Max(5, Min(95, rate))]

progress_stage(w, amount) == [w EXCEPT !.bd.current_stage = @ + amount]

regress_stage(w, amount) == [w EXCEPT !.bd.current_stage = @ - amount]

modify_pt(w, amount) == [w EXCEPT !.p.pt = Min(PtMax, @ + amount)]

get_stat_value(w, stat0) ==
  LET stat == normalize_stat_name(stat0) IN
  IF stat \in CombatStatNames \cup AbilityStatNames THEN w.p[stat] ELSE 0

set_stat_value(w, stat, value) ==
  IF stat \in CombatStatNames \cup {"sanity", "strength"}
  THEN [w EXCEPT !.p[stat] = Max(0, Min(StatMax(stat), value))]
  ELSE w

modify_stat(w, stat, operator, value) ==
  LET current == get_stat_value(w, stat)
      new_value == CASE operator = "+" -> current + value
                     [] operator = "-" -> current - value
                     [] operator = "=" -> value
                     [] operator = "*" -> current * value
                     [] operator = "/" ->
                          IF value # 0 THEN current \div value ELSE current
                     [] OTHER -> current
  IN set_stat_value(w, stat, new_value)

execute_resist(w, stage, roll) ==
  LET override == get_override(stage, "resist") IN
  IF override.override_result = "auto_fail" THEN progress_stage(w, 1)
  ELSE IF override.override_result = "auto_success" THEN regress_stage(w, 1)
  ELSE LET base_difficulty ==
             BindSequences[w.bd.sequence].config.base_difficulty
           w1 == calculate_success_rate(w, 100 - base_difficulty,
                                        override.success_rate_modifier)
           w2 == [w1 EXCEPT !.c.rolled = "resist"]
       IN IF roll <= w2.c.rate THEN regress_stage(w2, 1)
          ELSE modify_pt(progress_stage(w2, 1), ResistFailPt)

execute_resist_hard(w, stage, roll) ==
  LET override == get_override(stage, "resist_hard") IN
  IF override.override_result = "auto_fail"
  THEN modify_pt(progress_stage(w, 2), ResistHardFailPt)
  ELSE IF override.override_result = "auto_success"
  THEN [w EXCEPT !.bd.current_stage = -1]
  ELSE LET base_difficulty ==
             BindSequences[w.bd.sequence].config.base_difficulty
           w1 == calculate_success_rate(w, 50 - base_difficulty \div 2,
                                        override.success_rate_modifier)
           w2 == [w1 EXCEPT !.c.rolled = "resist_hard"]
       IN IF roll <= w2.c.rate THEN [w2 EXCEPT !.bd.current_stage = -1]
          ELSE modify_pt(progress_stage(w2, 1), ResistHardFailPt)

(* _execute_wait with the bonus added to the carried one *)
execute_wait_cumulative(w, stage) ==
  LET override == get_override(stage, "wait") IN
  IF override.override_result = "auto_fail" THEN w
  ELSE [progress_stage(w, 1) EXCEPT !.bd.next_turn_bonus = @ + WaitBonus]

execute_wait(w, stage) ==
  LET override == get_override(stage, "wait") IN
  IF override.override_result = "auto_fail" THEN w
  ELSE [progress_stage(w, 1) EXCEPT !.bd.next_turn_bonus = WaitBonus]

(* the cost components in the dict's order; the result is w.c.ret[1] = 1 *)
RECURSIVE apply_cost(_, _)
apply_cost(w, cost) ==
  IF cost = << >> THEN [w EXCEPT !.c.ret = <<1, 0>>]
  ELSE LET stat == Head(cost).stat
           amount == Head(cost).amount
       IN CASE stat = "mp" ->
                 IF w.p.mp < amount THEN [w EXCEPT !.c.ret = <<0, 0>>]
                 ELSE apply_cost([w EXCEPT !.p.mp = @ - amount], Tail(cost))
            [] stat = "hp" ->
                 IF w.p.hp < amount THEN [w EXCEPT !.c.ret = <<0, 0>>]
                 ELSE apply_cost([w EXCEPT !.p.hp = @ - amount], Tail(cost))
            [] stat = "item" ->
                 IF InvCount(w.inv, amount) < 1
                 THEN [w EXCEPT !.c.ret = <<0, 0>>]
                 ELSE apply_cost([w EXCEPT !.inv[amount] = @ - 1], Tail(cost))
            [] OTHER -> apply_cost(w, Tail(cost))

(* success checks of kind "fixed"; no check at all succeeds *)
check_custom_success(check, roll) ==
  IF check.type = "fixed" THEN roll <= check.rate ELSE TRUE

(* a set_flag effect is written with its value *)
apply_effect(w, e) ==
  CASE e.type = "stage_progress" -> progress_stage(w, e.amount)
    [] e.type = "stage_regress" -> regress_stage(w, e.amount)
    [] e.type = "escape_bind" -> [w EXCEPT !.bd.current_stage = -1]
    [] e.type = "deal_damage" ->
         IF e.target = "enemy" /\ w.gs.current_enemy # None
         THEN [w EXCEPT !.bs.enemy_hp = @ - e.damage]
         ELSE IF e.target = "self"
         THEN IF e.damage_type = "pt" THEN modify_pt(w, e.damage)
              ELSE [w EXCEPT !.p.hp = @ - e.damage]
         ELSE w
    [] e.type = "modify_stat" -> modify_stat(w, e.stat, e.operator, e.value)
    [] e.type = "set_flag" ->
         [w EXCEPT !.fl = [k \in (DOMAIN @) \cup {e.flag} |->
                             IF k = e.flag THEN e.value ELSE @[k]]]
    [] e.type = "switch_bind_sequence" ->
         start_sequence([w EXCEPT !.gs.current_bind_sequence = e.target,
                                  !.gs.current_bind_stage = e.stage],
                        e.target, e.stage)
    [] OTHER -> w

RECURSIVE apply_effects(_, _)
apply_effects(w, effects) ==
  IF effects = << >> THEN w
  ELSE apply_effects(apply_effect(w, Head(effects)), Tail(effects))

(* the dict _apply_loop_effects builds from an Effect: it carries no amount *)
LoopEffectDict(e) ==
  [BindEffect(e.type) EXCEPT !.stat = e.stat, !.operator = e.operator,
                             !.value = e.value, !.target = e.target,
                             !.damage = e.damage,
                             !.damage_type = e.damage_type]

RECURSIVE apply_stage_loop_effects(_, _)
apply_stage_loop_effects(w, effects) ==
  IF effects = << >> THEN w
  ELSE apply_stage_loop_effects(
         [apply_effects(w, << LoopEffectDict(Head(effects)) >>)
            EXCEPT !.c.loop_effects = @ + 1],
         Tail(effects))

apply_loop_effects(w, stage) ==
  LET loop_damage == BindSequences[w.bd.sequence].config.loop_damage
      w1 == IF "pt" \in DOMAIN loop_damage
            THEN modify_pt(w, loop_damage["pt"]) ELSE w
      w2 == IF "hp" \in DOMAIN loop_damage
            THEN [w1 EXCEPT !.p.hp = @ - loop_damage["hp"]] ELSE w1
      w3 == [w2 EXCEPT !.c.loops = @ + 1]
  IN apply_stage_loop_effects(w3, stage.loop_effects)

execute_custom_action(w, stage, action_id, roll) ==
  LET found == {i \in 1..Len(stage.custom_actions) :
                  stage.custom_actions[i].id = action_id}
  IN IF found = {} THEN w
     ELSE LET custom_action ==
                stage.custom_actions[CHOOSE i \in found :
                                       \A j \in found : i <= j]
              w1 == apply_cost([w EXCEPT !.c.action_id = action_id],
                               custom_action.cost)
          IN IF w1.c.ret[1] # 1 THEN w1
             ELSE IF check_custom_success(custom_action.success_check, roll)
             THEN apply_effects([w1 EXCEPT !.c.branch = "on_success"],
                                custom_action.on_success)
             ELSE apply_effects([w1 EXCEPT !.c.branch = "on_failure"],
                                custom_action.on_failure)

(* the end-of-sequence callback only emits a message (core.py _on_bind_end) *)
end_sequence(w, escaped) ==
  [w EXCEPT !.bd.escaped = IF w.bd.exists THEN escaped ELSE @,
            !.bd.failed = IF w.bd.exists THEN ~escaped ELSE @,
            !.gs.in_bind_sequence = FALSE,
            !.gs.current_bind_sequence = None,
            !.gs.current_bind_stage = 0,
            !.c.ended = TRUE]

is_in_sequence(bd) == bd.exists /\ bd.current_stage >= 0

BindChoice(t) == [type |-> t, action_id |-> None]

execute_choice(w0, choice, roll) ==
  LET w == [Begin(w0, "execute_choice", choice.type)
              EXCEPT !.c.stage0 = w0.bd.current_stage,
                     !.c.bonus0 = w0.bd.next_turn_bonus,
                     !.c.p0 = w0.p, !.c.inv0 = w0.inv,
                     !.c.gs0 = w0.gs, !.c.bd0 = w0.bd]
      stage == get_current_stage(w)
  IN IF ~w.bd.exists \/ stage = NoStage THEN [w EXCEPT !.c.noop = TRUE]
     ELSE
     LET w1 == CASE choice.type = "resist" -> execute_resist(w, stage, roll)
                 [] choice.type = "resist_hard" ->
                      execute_resist_hard(w, stage, roll)
                 [] choice.type = "wait" -> execute_wait(w, stage)
                 [] choice.type = "custom" /\ choice.action_id # None ->
                      execute_custom_action(w, stage, choice.action_id, roll)
                 [] OTHER -> w
         w2 == [w1 EXCEPT !.c.stage_after_choice = w1.bd.current_stage,
                          !.c.p1 = w1.p, !.c.inv1 = w1.inv]
     IN IF w2.bd.current_stage < 0 THEN end_sequence(w2, TRUE)
        ELSE LET max_stage == Len(BindSequences[w2.bd.sequence].stages) - 1
                 w3 == IF w2.bd.current_stage > max_stage
                       THEN apply_loop_effects(
                              [w2 EXCEPT !.bd.current_stage = max_stage],
                              stage)
                       ELSE w2
             IN [w3 EXCEPT !.gs.current_bind_stage = w3.bd.current_stage,
                           !.bd.turn = @ + 1]

----------------------------------------------------------------------------
(* actions.py: the state of an ActionSystem is its handler table and the   *)
(* current state of every node                                             *)

InitActionSystem ==
  [custom_handlers |-> {},
   nodes |-> [n \in NodeIds |-> Nodes[n].initial_state]]

register_handler(w, action_type) ==
  [w EXCEPT !.as.custom_handlers = @ \cup {action_type}]

ActionSystem_get_stat_value(w, stat0) ==
  LET stat == normalize_stat_name(stat0) IN
  CASE stat \in CombatStatNames \cup AbilityStatNames -> w.p[stat]
    [] stat = "sp_max" -> SpMax
    [] stat = "hp_max" -> HpMax
    [] stat = "mp_max" -> MpMax
    [] stat = "pt_max" -> PtMax
    [] OTHER -> 0

ActionSystem_set_stat_value(w, stat0, value) ==
  LET stat == normalize_stat_name(stat0) IN
  IF stat \in CombatStatNames \cup AbilityStatNames
  THEN [w EXCEPT !.p[stat] = Max(0, Min(StatMax(stat), value))]
  ELSE w

ActionSystem_compare(actual, operator, expected) ==
  CASE operator = "==" -> actual = expected
    [] operator = "!=" -> actual # expected
    [] operator = ">=" -> actual >= expected
    [] operator = "<=" -> actual <= expected
    [] operator = ">" -> actual > expected
    [] operator = "<" -> actual < expected
    [] OTHER -> FALSE

check_requirement(w, req) ==
  CASE req.type = "stat_check" ->
         ActionSystem_compare(ActionSystem_get_stat_value(w, req.stat),
                              req.operator, req.value)
    [] req.type = "flag_check" ->
         (IF req.flag \in DOMAIN w.fl THEN w.fl[req.flag] ELSE None)
           = req.value
    [] req.type = "item_check" -> InvCount(w.inv, req.item) >= req.count
    [] OTHER -> TRUE

(* check_requirements answering as soon as one requirement holds *)
RECURSIVE check_requirements_any(_, _)
check_requirements_any(w, requirements) ==
  IF requirements = << >> THEN TRUE
  ELSE IF check_requirement(w, Head(requirements)) THEN TRUE
  ELSE Tail(requirements) # << >>
       /\ check_requirements_any(w, Tail(requirements))

RECURSIVE check_requirements(_, _)
check_requirements(w, requirements) ==
  IF requirements = << >> THEN TRUE
  ELSE IF ~check_requirement(w, Head(requirements)) THEN FALSE
  ELSE check_requirements(w, Tail(requirements))

RECURSIVE AvailableOf(_, _)
AvailableOf(w, actions) ==
  IF actions = << >> THEN << >>
  ELSE IF check_requirements(w, Head(actions).requirements)
  THEN <<Head(actions)>> \o AvailableOf(w, Tail(actions))
  ELSE AvailableOf(w, Tail(actions))

get_available_actions(w, node_id) ==
  LET state == w.as.nodes[node_id] IN
  IF state \notin DOMAIN Nodes[node_id].states THEN << >>
  ELSE AvailableOf(w, Nodes[node_id].states[state].actions)

(* ActionResult.add_message: an empty message is not kept *)
add_message(w, message) ==
  IF message[2] = None THEN w
  ELSE [w EXCEPT !.c.result.messages = Append(@, message)]

ActionSystem_modify_stat(w, stat, operator, value) ==
  LET current == ActionSystem_get_stat_value(w, stat)
      new_value == CASE operator = "+" -> current + value
                     [] operator = "-" -> current - value
                     [] operator = "=" -> value
                     [] operator = "*" -> current * value
                     [] operator = "/" ->
                          IF value # 0 THEN current \div value ELSE current
                     [] OTHER -> current
  IN ActionSystem_set_stat_value(w, stat, new_value)

(* the handler the orchestrator registers for a plugin kind: it extends    *)
(* result.messages with the messages of the plugin                         *)
handler(w, effect) == add_message(w, <<"plugin", effect.type>>)

(* the kinds _execute_effect implements itself *)
BuiltinKinds ==
  {"message", "navigation", "get_item", "item_roll", "set_flag",
   "modify_stat", "change_node_state", "change_object_state", "battle",
   "run_bind_sequence", "switch_bind_sequence", "game_over", "game_clear",
   "stage_progress", "stage_regress", "escape_bind", "deal_damage"}

(* the built-in branches of _execute_effect; item pools, objects and        *)
(* endings are not part of the declared nodes                              *)
builtin_effect(w, effect) ==
  LET t == effect.type IN
  CASE t = "message" -> add_message(w, <<"text", effect.text>>)
    [] t = "navigation" ->
         [w EXCEPT !.c.result.navigation_target = effect.target]
    [] t = "get_item" ->
         add_message(add_item(w, effect.item, effect.count),
                     <<"got", effect.item>>)
    [] t = "set_flag" ->
         [w EXCEPT !.fl = [k \in (DOMAIN @) \cup {effect.flag} |->
                             IF k = effect.flag THEN effect.value ELSE @[k]]]
    [] t = "modify_stat" ->
         ActionSystem_modify_stat(w, effect.stat, effect.operator,
                                  effect.value)
    [] t = "change_node_state" ->
         LET node_id == IF effect.node # None THEN effect.node
                        ELSE w.gs.current_node
         IN IF node_id \in NodeIds
            THEN [w EXCEPT !.as.nodes[node_id] = effect.new_state]
            ELSE w
    [] t = "battle" -> [w EXCEPT !.c.result.battle_start = effect.enemy]
    [] t = "run_bind_sequence" ->
         [w EXCEPT !.c.result.bind_sequence_start = effect.sequence]
    [] t = "switch_bind_sequence" ->
         [w EXCEPT !.c.result.bind_sequence_start = effect.target,
                   !.gs.current_bind_stage = effect.stage]
    [] t = "game_over" ->
         [add_message([w EXCEPT !.c.result.game_over = TRUE],
                      <<"text", IF effect.reason # None THEN effect.reason
                                ELSE "game over">>)
            EXCEPT !.gs.game_over = TRUE]
    [] t = "stage_progress" ->
         [w EXCEPT !.gs.current_bind_stage = @ + effect.amount]
    [] t = "stage_regress" ->
         [w EXCEPT !.gs.current_bind_stage = Max(-1, @ - effect.amount)]
    [] t = "escape_bind" ->
         [w EXCEPT !.gs.in_bind_sequence = FALSE,
                   !.gs.current_bind_sequence = None,
                   !.gs.current_bind_stage = 0]
    [] t = "deal_damage" ->
         IF effect.target = "enemy" /\ w.gs.current_enemy # None
         THEN add_message([w EXCEPT !.bs.enemy_hp = @ - effect.damage],
                          <<"damage", "enemy">>)
         ELSE IF effect.target = "self"
         THEN IF effect.damage_type = "pt"
              THEN ActionSystem_set_stat_value(w, "pt",
                                               w.p.pt + effect.damage)
              ELSE add_message(
                     ActionSystem_set_stat_value(w, "hp",
                                                 w.p.hp - effect.damage),
                     <<"damage", "self">>)
         ELSE w
    [] OTHER -> w

execute_effect(w0, effect) ==
  LET w == Ev(w0, effect.type) IN
  IF effect.type \in w.as.custom_handlers THEN handler(w, effect)
  ELSE builtin_effect(w, effect)

(* the effect loop leaving at the first effect that asks for a navigation *)
RECURSIVE execute_effects_until_navigation(_, _)
execute_effects_until_navigation(w, effects) ==
  IF effects = << >> THEN w
  ELSE IF w.c.result.navigation_target # None THEN w
  ELSE execute_effects_until_navigation(execute_effect(w, Head(effects)),
                                        Tail(effects))

RECURSIVE execute_effects(_, _)
execute_effects(w, effects) ==
  IF effects = << >> THEN w
  ELSE execute_effects(execute_effect(w, Head(effects)), Tail(effects))

(* ActionSystem.execute_action; the ActionResult is w.c.result *)
execute_action(w0, action) ==
  LET w == [w0 EXCEPT !.c.result = NoResult] IN
  IF ~check_requirements(w, action.requirements)
  THEN add_message([w EXCEPT !.c.result.success = FALSE],
                   <<"text", "requirements not met">>)
  ELSE LET w1 == execute_effects(w, action.effects)
       IN IF action.type = "navigation" /\ action.target # None
          THEN [w1 EXCEPT !.c.result.navigation_target = action.target]
          ELSE w1

----------------------------------------------------------------------------
(* core.py: the orchestrator acting on the result of an exploration action *)

(* _emit_messages: what reaches the presentation layer, in order *)
Emit(w, m) == [w EXCEPT !.c.emitted = Append(@, m)]

(* _show_current_location: the nodes of the model declare no state      *)
(* triggers; the node shown is marked as visited                         *)
show_current_location(w) ==
  IF w.gs.current_node \notin NodeIds THEN Emit(w, "no_location")
  ELSE [Emit(w, "location") EXCEPT
          !.gs.visited_nodes = @ \cup {w.gs.current_node}]

navigate_to(w, node_id) ==
  IF node_id \notin NodeIds THEN Emit(w, "no_target")
  ELSE show_current_location(
         Emit(Ev([w EXCEPT !.gs.current_node = node_id], "navigate_to"),
              "separator"))

(* _on_battle_end, the callback _end_battle invokes *)
on_battle_end(w, player_won, escaped) ==
  LET events == EnemyEvents[w.bs.enemy] IN
  IF player_won
  THEN IF events.on_victory # None THEN navigate_to(w, events.on_victory)
       ELSE w
  ELSE IF ~escaped /\ events.on_defeat # None
  THEN navigate_to(w, events.on_defeat)
  ELSE w

(* _start_battle; the record of the enclosing call is kept *)
GameEngine_start_battle(w, enemy_id, rnd) ==
  IF enemy_id \notin EnemyIds THEN w
  ELSE LET w1 == start_battle(w, enemy_id, rnd)
       IN [w1 EXCEPT !.c = [w.c EXCEPT
                              !.ev = Append(@, "start_battle") \o w1.c.ev]]

(* _start_bind_sequence: start_sequence with its default start stage *)
GameEngine_start_bind_sequence(w, sequence_id) ==
  start_sequence(Ev(w, "start_sequence"), sequence_id, 0)

execute_exploration_action(w0, action, rnd) ==
  LET w == [Begin(w0, "execute_exploration_action", action.id)
              EXCEPT !.c.p0 = w0.p, !.c.inv0 = w0.inv, !.c.gs0 = w0.gs,
                     !.c.bd0 = w0.bd, !.c.bs0 = w0.bs, !.c.fl0 = w0.fl,
                     !.c.as0 = w0.as]
      w1 == execute_action(w, action)
      result == w1.c.result
      w2 == IF result.navigation_target # None
            THEN navigate_to(w1, result.navigation_target) ELSE w1
      w3 == IF result.battle_start # None
            THEN GameEngine_start_battle(w2, result.battle_start, rnd)
            ELSE w2
  IN IF result.bind_sequence_start # None
     THEN GameEngine_start_bind_sequence(w3, result.bind_sequence_start)
     ELSE w3

----------------------------------------------------------------------------
(* Initial state: GameState(), Player() and freshly constructed systems *)

(* the save file: absent or unreadable, or the data save_game wrote;     *)
(* saved_from remembers the in-memory state the data was taken from      *)
NoFile == [readable |-> FALSE, data |-> << >>, saved_from |-> << >>]

InitGameState == [current_node |-> EntryPoint,
                  visited_nodes |-> {EntryPoint},
                  in_battle |-> FALSE, current_enemy |-> None,
                  in_bind_sequence |-> FALSE, current_bind_sequence |-> None,
                  current_bind_stage |-> 0, game_over |-> FALSE]

Init ==
  /\ player = InitPlayer
  /\ inventory = << >>
  /\ status_effects = << >>
  /\ brands = << >>
  /\ battle_state = NoBattle
  /\ game_state = InitGameState
  /\ bind_state = NoBind
  /\ last = NoCall
  /\ flags = << >>
  /\ action_system = InitActionSystem
  /\ enemies = InitEnemies
  /\ save_file = NoFile

----------------------------------------------------------------------------
(* Actions of the battle specification *)

PlayerActions ==
  {PlayerAction("attack"), PlayerAction("defend"), PlayerAction("escape")}
  \cup {[PlayerAction("spell") EXCEPT !.spell_id = "fire"]}
  \cup {[PlayerAction("item") EXCEPT !.item_id = i] : i \in ItemIds}

ActionRnd(a) ==
  {[r EXCEPT !.jitter = j, !.esc = x, !.pmiss = m] :
     r \in EnemyRnd,
     j \in IF a.type = "attack" THEN Jitters ELSE {100},
     x \in IF a.type = "escape" THEN EscapeRolls ELSE {0},
     m \in IF a.type = "spell" THEN BOOLEAN ELSE {FALSE}}

is_in_battle(bs) == bs.exists /\ ~bs.is_over

(* The callers: the orchestrator starts a battle only outside one and      *)
(* while the game is running, and hands it player actions only while the   *)
(* battle is live (core.py execute_action).  A run of this specification   *)
(* holds one battle; items are collected before it, brands are added and   *)
(* removed before and after it.                                            *)
StartBattle ==
  /\ ~game_state.game_over
  /\ ~game_state.in_battle
  /\ ~battle_state.exists
  /\ \E e \in EnemyIds : \E rnd \in EnemyRnd :
       Commit(start_battle(World, e, rnd))

ExecutePlayerAction ==
  /\ is_in_battle(battle_state)
  /\ game_state.in_battle
  /\ battle_state.turn < MaxTurn
  /\ \E a \in PlayerActions : \E rnd \in ActionRnd(a) :
       Commit(execute_player_action(World, a, rnd))

GetItem ==
  /\ ~battle_state.exists
  /\ \E i \in ItemIds :
       /\ InvCount(inventory, i) < MaxItemCount
       /\ Commit(add_item([World EXCEPT !.c = [NoCall EXCEPT !.op = "get_item"]],
                          i, 1))

BrandTargets == {"succubus"}

AddBrand ==
  /\ ~is_in_battle(battle_state)
  /\ \E e \in BrandTargets :
       Commit([World EXCEPT !.c = [NoCall EXCEPT !.op = "add_brand"],
                            !.br = add_brand(@, e, 30)])

RemoveBrand ==
  /\ ~is_in_battle(battle_state)
  /\ \E e \in BrandTargets :
       Commit([World EXCEPT !.c = [NoCall EXCEPT !.op = "remove_brand"],
                            !.br = remove_brand(@, e)])

NextBattle ==
  \/ StartBattle
  \/ ExecutePlayerAction
  \/ GetItem
  \/ AddBrand
  \/ RemoveBrand

SpecBattle == Init /\ [][NextBattle]_vars

----------------------------------------------------------------------------
(* Actions of the bind-sequence specification.  A run holds one sequence;  *)
(* execute_choice is public and may be called after the sequence ended.    *)

CustomIds == {"cut", "tear", "flee", "leap"}

BindChoices ==
  {BindChoice("resist"), BindChoice("resist_hard"), BindChoice("wait")}
  \cup {[BindChoice("custom") EXCEPT !.action_id = a] : a \in CustomIds}

ChoiceRolls(choice) ==
  IF choice.type = "wait" THEN {1} ELSE BindRolls

(* the ids handed to start_sequence: the defined ones and one that is not *)
StartIds == SequenceIds \cup {"ghost"}

StartSequence ==
  \E q \in StartIds :
    /\ ~bind_state.exists \/ q \notin SequenceIds
    /\ Commit(start_sequence(
                [Begin(World, "start_sequence", q)
                   EXCEPT !.c.gs0 = game_state, !.c.bd0 = bind_state],
                q, 0))

ExecuteChoice ==
  /\ bind_state.exists
  /\ bind_state.turn < MaxBindTurn
  /\ \E choice \in BindChoices : \E roll \in ChoiceRolls(choice) :
       Commit(execute_choice(World, choice, roll))

NextBind ==
  \/ StartSequence
  \/ ExecuteChoice

SpecBind == Init /\ [][NextBind]_vars

----------------------------------------------------------------------------
(* _deal_damage_to_player as a function of its inputs: one call on a       *)
(* player whose SP and HP are drawn from bounded sets.                     *)

DamageInputs == 0..MaxDamage
ShieldInputs == 0..MaxShield
HpInputs == {1, HpMax}

InitDamage ==
  /\ player \in {[InitPlayer EXCEPT !.sp = s, !.hp = h] :
                   s \in ShieldInputs, h \in HpInputs}
  /\ inventory = << >>
  /\ status_effects = << >>
  /\ brands = << >>
  /\ battle_state = NoBattle
  /\ game_state = InitGameState
  /\ bind_state = NoBind
  /\ last = NoCall
  /\ flags = << >>
  /\ action_system = InitActionSystem
  /\ enemies = InitEnemies
  /\ save_file = NoFile

DealDamage ==
  /\ last.op = None
  /\ \E damage \in DamageInputs : \E bypass_shield \in BOOLEAN :
       Commit(deal_damage_to_player(
                [Begin(World, "deal_damage", None)
                   EXCEPT !.c.amount = damage, !.c.bypass = bypass_shield,
                          !.c.sp0 = player.sp, !.c.hp0 = player.hp],
                damage, bypass_shield))

NextDamage == DealDamage

SpecDamage == InitDamage /\ [][NextDamage]_vars

----------------------------------------------------------------------------
(* start_battle on a player who has been through earlier encounters: SP,   *)
(* HP, PT and dexterity are drawn from bounded sets.                       *)

StartSp == {0, 50, SpMax}
StartHp == {10, 50, HpMax}
StartPt == {0, PtMax}
StartDex == {9, 10, 45, 60}

InitStart ==
  /\ player \in {[InitPlayer EXCEPT !.sp = s, !.hp = h, !.pt = t,
                                    !.dexterity = d] :
                   s \in StartSp, h \in StartHp, t \in StartPt, d \in StartDex}
  /\ inventory = << >>
  /\ status_effects = << >>
  /\ brands = << >>
  /\ battle_state = NoBattle
  /\ game_state = InitGameState
  /\ bind_state = NoBind
  /\ last = NoCall
  /\ flags = << >>
  /\ action_system = InitActionSystem
  /\ enemies = InitEnemies
  /\ save_file = NoFile

NextStart == StartBattle

SpecStart == InitStart /\ [][NextStart]_vars

----------------------------------------------------------------------------
(* The ESCAPE action over the range of the player's dexterity: a battle is *)
(* started and the player tries to escape; random.random() is drawn in     *)
(* hundredths.                                                             *)

EscapeDex == {0, 5, 45, 60, 95, 100}
EscapeDraws == {0, 9, 10, 34, 35, 84, 85, 89, 90, 99}

InitEscape ==
  /\ player \in {[InitPlayer EXCEPT !.dexterity = d] : d \in EscapeDex}
  /\ inventory = << >>
  /\ status_effects = << >>
  /\ brands = << >>
  /\ battle_state = NoBattle
  /\ game_state = InitGameState
  /\ bind_state = NoBind
  /\ last = NoCall
  /\ flags = << >>
  /\ action_system = InitActionSystem
  /\ enemies = InitEnemies
  /\ save_file = NoFile

Escape ==
  /\ is_in_battle(battle_state)
  /\ game_state.in_battle
  /\ battle_state.turn < MaxTurn
  /\ \E x \in EscapeDraws : \E r \in EnemyRnd :
       Commit(execute_player_action(World, PlayerAction("escape"),
                                    [r EXCEPT !.esc = x]))

NextEscape ==
  \/ StartBattle
  \/ Escape

SpecEscape == InitEscape /\ [][NextEscape]_vars

----------------------------------------------------------------------------
(* The ATTACK action over the player's strength, with and without a Brand, *)
(* against a lightly and a heavily armoured enemy.                         *)

AttackStrength == {0, 25, 50, 100}
AttackRatios == {0, 30}
AttackEnemies == {"golem"} \cup ArmoredIds

InitAttack ==
  /\ player \in {[InitPlayer EXCEPT !.strength = x] : x \in AttackStrength}
  /\ inventory = << >>
  /\ status_effects = << >>
  /\ brands \in {IF r = 0 THEN << >> ELSE add_brand(<< >>, e, r) :
                    r \in AttackRatios, e \in AttackEnemies}
  /\ battle_state = NoBattle
  /\ game_state = InitGameState
  /\ bind_state = NoBind
  /\ last = NoCall
  /\ flags = << >>
  /\ action_system = InitActionSystem
  /\ enemies = InitEnemies
  /\ save_file = NoFile

StartAttackBattle ==
  /\ ~game_state.game_over
  /\ ~game_state.in_battle
  /\ ~battle_state.exists
  /\ \E e \in AttackEnemies :
       Commit(start_battle(World, e, NoRnd))

Attack ==
  /\ is_in_battle(battle_state)
  /\ game_state.in_battle
  /\ battle_state.turn < MaxTurn
  /\ \E j \in Jitters :
       Commit(execute_player_action(World, PlayerAction("attack"),
                                    [NoRnd EXCEPT !.jitter = j]))

NextAttack ==
  \/ StartAttackBattle
  \/ Attack

SpecAttack == InitAttack /\ [][NextAttack]_vars

----------------------------------------------------------------------------
(* An enemy whose spell is declared with damage_type "pt", against a       *)
(* player met at several levels of shield and PT.                          *)

TypedShield == {0, 20, SpMax}
TypedPt == {0, 60, 90}
TypedActions == {PlayerAction("attack"), PlayerAction("defend")}

InitTyped ==
  /\ player \in {[InitPlayer EXCEPT !.sp = x, !.pt = y] :
                    x \in TypedShield, y \in TypedPt}
  /\ inventory = << >>
  /\ status_effects = << >>
  /\ brands = << >>
  /\ battle_state = NoBattle
  /\ game_state = InitGameState
  /\ bind_state = NoBind
  /\ last = NoCall
  /\ flags = << >>
  /\ action_system = InitActionSystem
  /\ enemies = InitEnemies
  /\ save_file = NoFile

StartTypedBattle ==
  /\ ~game_state.game_over
  /\ ~game_state.in_battle
  /\ ~battle_state.exists
  /\ \E e \in CasterIds :
       Commit(start_battle(World, e, NoRnd))

TypedTurn ==
  /\ is_in_battle(battle_state)
  /\ game_state.in_battle
  /\ battle_state.turn < MaxTurn
  /\ \E a \in TypedActions : \E m \in BOOLEAN :
       Commit(execute_player_action(World, a, [NoRnd EXCEPT !.emiss = m]))

NextTyped ==
  \/ StartTypedBattle
  \/ TypedTurn

SpecTyped == InitTyped /\ [][NextTyped]_vars

----------------------------------------------------------------------------
(* Battle after battle: once a battle is over the orchestrator may start   *)
(* the next one, against the same template or another.                     *)

RematchShield == {0, SpMax}
RematchActions == {PlayerAction("attack"), PlayerAction("escape")}
RematchDraws == {0, 99}

InitRematch ==
  /\ player \in {[InitPlayer EXCEPT !.sp = x] : x \in RematchShield}
  /\ inventory = << >>
  /\ status_effects = << >>
  /\ brands = << >>
  /\ battle_state = NoBattle
  /\ game_state = InitGameState
  /\ bind_state = NoBind
  /\ last = NoCall
  /\ flags = << >>
  /\ action_system = InitActionSystem
  /\ enemies = InitEnemies
  /\ save_file = NoFile

StartRematch ==
  /\ ~game_state.game_over
  /\ ~game_state.in_battle
  /\ \E e \in EnemyIds :
       Commit(start_battle(World, e, NoRnd))

RematchTurn ==
  /\ is_in_battle(battle_state)
  /\ game_state.in_battle
  /\ battle_state.turn < MaxTurn
  /\ \E a \in RematchActions : \E x \in RematchDraws : \E j \in Jitters :
       Commit(execute_player_action(World, a,
                                    [NoRnd EXCEPT !.esc = x, !.jitter = j]))

NextRematch ==
  \/ StartRematch
  \/ RematchTurn

SpecRematch == InitRematch /\ [][NextRematch]_vars

----------------------------------------------------------------------------
(* BattleSystem.execute_player_action called by any holder of the battle   *)
(* system (the tests call it directly): the only entry test of the method  *)
(* is that a battle state exists, so the call is also possible once the    *)
(* battle is over.  A run makes one such call per finished battle (the     *)
(* enemy hit points it lowers have no floor).                              *)

AnyTurn ==
  /\ battle_state.exists
  /\ battle_state.turn < MaxTurn
  /\ battle_state.is_over =>
       ~(last.op = "execute_player_action" /\ last.bs0.is_over)
  /\ \E a \in RematchActions : \E x \in RematchDraws :
       Commit(execute_player_action(World, a, [NoRnd EXCEPT !.esc = x]))

NextOver ==
  \/ StartRematch
  \/ AnyTurn

SpecOver == InitRematch /\ [][NextOver]_vars

----------------------------------------------------------------------------
(* One effect, two engines: the effect kinds a bind-sequence custom action *)
(* and a node action both declare, applied by _apply_effects of the bind   *)
(* sequence and by _execute_effect of the action system to the same player *)
(* in the same sequence.                                                   *)

SharedEffect(t) ==
  [type |-> t, amount |-> 1, target |-> "self", damage |-> 0,
   damage_type |-> "physical", stat |-> None, operator |-> "+", value |-> 0,
   flag |-> None]

SharedEffects ==
  {SharedEffect("stage_progress"), SharedEffect("stage_regress"),
   [SharedEffect("stage_regress") EXCEPT !.amount = 2],
   SharedEffect("escape_bind"),
   [SharedEffect("deal_damage") EXCEPT !.damage = 20],
   [SharedEffect("deal_damage") EXCEPT !.damage = 20, !.damage_type = "pt"],
   [SharedEffect("modify_stat") EXCEPT !.stat = "hp", !.operator = "-",
                                       !.value = 20],
   [SharedEffect("modify_stat") EXCEPT !.stat = "PT", !.value = 20],
   [SharedEffect("modify_stat") EXCEPT !.stat = "strength", !.value = 10],
   [SharedEffect("modify_stat") EXCEPT !.stat = "kinryoku", !.value = 10],
   [SharedEffect("modify_stat") EXCEPT !.stat = "focus", !.value = 10],
   [SharedEffect("set_flag") EXCEPT !.flag = "seen", !.value = "true"]}

(* the dict of a custom action's effect list *)
AsBindEffect(e) ==
  [BindEffect(e.type) EXCEPT !.amount = e.amount, !.target = e.target,
                             !.damage = e.damage,
                             !.damage_type = e.damage_type, !.stat = e.stat,
                             !.operator = e.operator, !.value = e.value,
                             !.flag = e.flag]

(* the Effect object of a node action *)
AsEffect(e) ==
  [Effect(e.type) EXCEPT !.amount = e.amount, !.target = e.target,
                         !.damage = e.damage, !.damage_type = e.damage_type,
                         !.stat = e.stat, !.operator = e.operator,
                         !.value = e.value, !.flag = e.flag]

EffectHp == {10, HpMax}
EffectPt == {0, 90}
EffectStages == {0, 1}

InitEffects ==
  \E hp \in EffectHp : \E pt \in EffectPt : \E stage \in EffectStages :
    /\ player = [InitPlayer EXCEPT !.hp = hp, !.pt = pt]
    /\ inventory = << >>
    /\ status_effects = << >>
    /\ brands = << >>
    /\ battle_state = NoBattle
    /\ game_state = [InitGameState EXCEPT !.in_bind_sequence = TRUE,
                                          !.current_bind_sequence = "vines",
                                          !.current_bind_stage = stage]
    /\ bind_state = [NoBind EXCEPT !.exists = TRUE, !.sequence = "vines",
                                   !.current_stage = stage]
    /\ last = NoCall
    /\ flags = << >>
    /\ action_system = InitActionSystem
    /\ enemies = InitEnemies
    /\ save_file = NoFile

Snapshot(w, w0) ==
  [w EXCEPT !.c.p0 = w0.p, !.c.bd0 = w0.bd, !.c.gs0 = w0.gs,
            !.c.fl0 = w0.fl]

ApplyInBindSequence ==
  /\ last.op = None
  /\ \E e \in SharedEffects :
       Commit(Snapshot(apply_effects(Begin(World, "apply_effects", e),
                                     << AsBindEffect(e) >>),
                       World))

ApplyInInterpreter ==
  /\ last.op = None
  /\ \E e \in SharedEffects :
       Commit(Snapshot(execute_effect(Begin(World, "execute_effect", e),
                                      AsEffect(e)),
                       World))

NextEffects ==
  \/ ApplyInBindSequence
  \/ ApplyInInterpreter

SpecEffects == InitEffects /\ [][NextEffects]_vars

----------------------------------------------------------------------------
(* A long battle against the enemy that binds: the battle system alone,    *)
(* which only raises the bind-sequence signals; the player attacks or      *)
(* defends.                                                                *)

MaxEnemyTurn == 6
CooldownShield == {0, SpMax}
CooldownDexterity == {45, 60}
CooldownActions == {PlayerAction("attack"), PlayerAction("defend")}

InitCooldown ==
  /\ player \in {[InitPlayer EXCEPT !.sp = x, !.dexterity = d] :
                    x \in CooldownShield, d \in CooldownDexterity}
  /\ inventory = << >>
  /\ status_effects = << >>
  /\ brands = << >>
  /\ battle_state = NoBattle
  /\ game_state = InitGameState
  /\ bind_state = NoBind
  /\ last = NoCall
  /\ flags = << >>
  /\ action_system = InitActionSystem
  /\ enemies = InitEnemies
  /\ save_file = NoFile

StartBinderBattle ==
  /\ ~game_state.game_over
  /\ ~battle_state.exists
  /\ \E e \in BinderIds : Commit(start_battle(World, e, NoRnd))

BinderTurn ==
  /\ is_in_battle(battle_state)
  /\ battle_state.turn < MaxEnemyTurn
  /\ \E a \in CooldownActions :
       Commit(execute_player_action(World, a, NoRnd))

NextCooldown ==
  \/ StartBinderBattle
  \/ BinderTurn

SpecCooldown == InitCooldown /\ [][NextCooldown]_vars

----------------------------------------------------------------------------
(* state_machine.py: the trigger of a node state *)

(* StateMachine._get_stat_value: the token is looked up as it is written *)
StateMachine_get_stat_value(w, stat) ==
  CASE stat \in CombatStatNames \cup AbilityStatNames -> w.p[stat]
    [] stat = "sp_max" -> SpMax
    [] stat = "hp_max" -> HpMax
    [] stat = "mp_max" -> MpMax
    [] stat = "pt_max" -> PtMax
    [] OTHER -> 0

StateMachine_compare(actual, operator, expected) ==
  CASE operator = "==" -> actual = expected
    [] operator = "!=" -> actual # expected
    [] operator = ">=" -> actual >= expected
    [] operator = "<=" -> actual <= expected
    [] operator = ">" -> actual > expected
    [] operator = "<" -> actual < expected
    [] OTHER -> FALSE

(* StateMachine._evaluate_trigger; the trigger is a dict with the keys of *)
(* a requirement                                                          *)
evaluate_trigger(w, trigger) ==
  CASE trigger.type = "flag_check" ->
         (IF trigger.flag \in DOMAIN w.fl THEN w.fl[trigger.flag] ELSE None)
           = trigger.value
    [] trigger.type = "stat_check" ->
         StateMachine_compare(StateMachine_get_stat_value(w, trigger.stat),
                              trigger.operator, trigger.value)
    [] trigger.type = "item_check" ->
         InvCount(w.inv, trigger.item) >= trigger.count
    [] OTHER -> FALSE

(* One condition record read as a trigger and as a requirement, for        *)
(* players that differ in HP, flags and inventory.                         *)

StatCheck(stat, operator, value) ==
  [Requirement("stat_check") EXCEPT !.stat = stat, !.operator = operator,
                                    !.value = value]

Conditions ==
  {StatCheck("hp", ">=", 50), StatCheck("hp", "<", 50),
   StatCheck("HP", ">=", 50), StatCheck("kinryoku", ">=", 50),
   StatCheck("strength", "==", 50), StatCheck("hp_max", ">", 50),
   StatCheck("luck", "==", 0), StatCheck("hp", "~", 50),
   [Requirement("flag_check") EXCEPT !.flag = "seen", !.value = "true"],
   [Requirement("item_check") EXCEPT !.item = "incense", !.count = 1],
   [Requirement("item_check") EXCEPT !.item = "incense", !.count = 2],
   Requirement("visited_check")}

ConditionHp == {10, HpMax}
ConditionFlags == {<< >>, [f \in {"seen"} |-> "true"]}
ConditionInventories == {<< >>, [i \in {"incense"} |-> 1]}

InitConditions ==
  /\ player \in {[InitPlayer EXCEPT !.hp = x] : x \in ConditionHp}
  /\ inventory \in ConditionInventories
  /\ status_effects = << >>
  /\ brands = << >>
  /\ battle_state = NoBattle
  /\ game_state = InitGameState
  /\ bind_state = NoBind
  /\ last = NoCall
  /\ flags \in ConditionFlags
  /\ action_system = InitActionSystem
  /\ enemies = InitEnemies
  /\ save_file = NoFile

Answer(w, b) == [w EXCEPT !.c.ret = <<IF b THEN 1 ELSE 0, 0>>]

EvaluateTrigger ==
  /\ last.op = None
  /\ \E t \in Conditions :
       Commit(Answer(Begin(World, "evaluate_trigger", t),
                     evaluate_trigger(World, t)))

CheckRequirement ==
  /\ last.op = None
  /\ \E r \in Conditions :
       Commit(Answer(Begin(World, "check_requirement", r),
                     check_requirement(World, r)))

NextConditions ==
  \/ EvaluateTrigger
  \/ CheckRequirement

SpecConditions == InitConditions /\ [][NextConditions]_vars

----------------------------------------------------------------------------
(* actions.py: the weighted draw behind item_roll and the enemy pools *)

(* _weighted_random uses every option although some weight is zero *)
weighted_random_uniform(options, r) ==
  IF options = << >> THEN None
  ELSE options[RandInt(r, Len(options))].value

(* _weighted_random; r is the draw of random.randint, or of random.choice *)
(* when the total weight is 0                                             *)
weighted_random(options, r) ==
  IF options = << >> THEN None
  ELSE LET total_weight == SumWeights(options)
       IN IF total_weight = 0
          THEN options[RandInt(r, Len(options))].value
          ELSE LET i == PickIndex(options, RandInt(r, total_weight), 1, 0)
               IN IF i > 0 THEN options[i].value
                  ELSE options[Len(options)].value

----------------------------------------------------------------------------
(* The weighted draw over every pool of up to MaxPoolLen options with      *)
(* weights up to MaxWeight; the value of an option names its position.     *)

MaxPoolLen == 3
MaxWeight == 2

WeightedPools ==
  {[i \in 1..n |-> [weight |-> ws[i], value |-> ToString(i)]] :
     n \in 1..MaxPoolLen, ws \in [1..MaxPoolLen -> 0..MaxWeight]}

SelectDraws == 1..(MaxPoolLen * MaxWeight)

InitSelect ==
  /\ player = InitPlayer
  /\ inventory = << >>
  /\ status_effects = << >>
  /\ brands = << >>
  /\ battle_state = NoBattle
  /\ game_state = InitGameState
  /\ bind_state = NoBind
  /\ last \in {[NoCall EXCEPT !.op = "item_pool", !.arg = options] :
                  options \in WeightedPools}
  /\ flags = << >>
  /\ action_system = InitActionSystem
  /\ enemies = InitEnemies
  /\ save_file = NoFile

WeightedRandom ==
  \E r \in SelectDraws :
    Commit([World EXCEPT !.c.op = "_weighted_random",
                         !.c.roll = r,
                         !.c.rolled = weighted_random(last.arg, r)])

NextSelect ==
  \/ WeightedRandom

SpecSelect == InitSelect /\ [][NextSelect]_vars

----------------------------------------------------------------------------
(* plugins.py: the inventory helpers a plugin reaches through its context *)

PluginContext_remove_item(w, item_id, count) ==
  LET current == InvCount(w.inv, item_id)
  IN IF current < count THEN [w EXCEPT !.c.ret = <<0, 0>>]
     ELSE [w EXCEPT !.inv = [k \in (DOMAIN @) \cup {item_id} |->
                              IF k = item_id THEN current - count ELSE @[k]],
                    !.c.ret = <<1, 0>>]

----------------------------------------------------------------------------
(* Items granted during exploration and consumed by a plugin or by the     *)
(* item cost of a custom action of the sequence that holds the player.     *)

ItemSequences == {"web"}
ItemChoices ==
  {[BindChoice("custom") EXCEPT !.action_id = "burn"], BindChoice("wait"),
   BindChoice("resist")}
RemoveCounts == 1..MaxItemCount

StartItemSequence ==
  /\ ~bind_state.exists
  /\ \E q \in ItemSequences :
       Commit(start_sequence(
                [Begin(World, "start_sequence", q)
                   EXCEPT !.c.gs0 = game_state, !.c.bd0 = bind_state],
                q, 0))

PayItem ==
  /\ bind_state.exists
  /\ bind_state.turn < MaxBindTurn
  /\ \E choice \in ItemChoices : \E roll \in ChoiceRolls(choice) :
       Commit(execute_choice(World, choice, roll))

PluginRemoveItem ==
  \E i \in ItemIds : \E n \in RemoveCounts :
    Commit(PluginContext_remove_item(Begin(World, "remove_item", i), i, n))

NextItems ==
  \/ GetItem
  \/ StartItemSequence
  \/ PayItem
  \/ PluginRemoveItem

SpecItems == Init /\ [][NextItems]_vars

----------------------------------------------------------------------------
(* core.py: save_game and load_game.  The file holds what json.dump wrote: *)
(* the visited set as a list, the player's stats, inventory, flags and     *)
(* Brands and the state of every node.  The spell list of the player and   *)
(* the objects of the nodes do not vary in the model: their keys are       *)
(* present in the file and carry nothing.                                  *)

RECURSIVE SetToList(_)
SetToList(S) ==
  IF S = {} THEN << >>
  ELSE LET x == CHOOSE y \in S : TRUE
       IN <<x>> \o SetToList(S \ {x})

ListToSet(l) == {l[i] : i \in 1..Len(l)}

CombatKeys == {"sp", "hp", "mp", "pt"}
AbilityKeys == {"sanity", "strength", "focus", "intelligence", "knowledge",
                "dexterity"}

save_data(w) ==
  [current_node |-> w.gs.current_node,
   visited_nodes |-> SetToList(w.gs.visited_nodes),
   player |-> [combat_stats |-> [k \in CombatKeys |-> w.p[k]],
               ability_stats |-> [k \in AbilityKeys |-> w.p[k]],
               inventory |-> w.inv,
               flags |-> w.fl,
               brands |-> [i \in 1..Len(w.br) |->
                             [enemy_id |-> w.br[i].enemy_id,
                              debuff_ratio |-> w.br[i].debuff_ratio]]],
   node_states |-> w.as.nodes]

(* the in-memory state the claims about persistence speak of *)
Memory(w) ==
  [current_node |-> w.gs.current_node,
   visited_nodes |-> w.gs.visited_nodes,
   player |-> w.p, inventory |-> w.inv, flags |-> w.fl, brands |-> w.br,
   status_effects |-> w.st, node_states |-> w.as.nodes]

(* save_game; outcome tells how the write went: open may fail, which     *)
(* leaves the file on disk as it was, and json.dump may fail after open   *)
(* truncated the file, which leaves nothing readable.                     *)
save_game(w0, outcome) ==
  LET w == [Begin(w0, "save_game", outcome) EXCEPT !.c.mem0 = Memory(w0)]
  IN IF outcome = "written"
     THEN [w EXCEPT !.sf = [readable |-> TRUE, data |-> save_data(w),
                            saved_from |-> Memory(w)],
                    !.c.ret = <<1, 0>>]
     ELSE [w EXCEPT !.sf = IF outcome = "open_failed" THEN @ ELSE NoFile,
                    !.c.ret = <<0, 0>>,
                    !.c.result.success = FALSE,
                    !.c.result.messages = Append(@, <<"save_failed">>)]

(* the except branch of load_game *)
load_failed(w) ==
  [w EXCEPT !.c.ret = <<0, 0>>,
            !.c.result.success = FALSE,
            !.c.result.messages = Append(@, <<"load_failed">>)]

(* _init_systems: the four systems are built anew around the game state;  *)
(* the plugin manager of the model holds no action plugin                 *)
init_systems(w) ==
  [w EXCEPT !.bs = NoBattle, !.bd = NoBind,
            !.as.custom_handlers = InitActionSystem.custom_handlers]

(* load_game; missing is the set of keys the file read lacks.  The keys   *)
(* are consumed in the order of the code and each part is restored as     *)
(* soon as it was read.                                                   *)
load_game(w0, missing) ==
  LET w == [Begin(w0, "load_game", missing) EXCEPT !.c.mem0 = Memory(w0)]
      d == w.sf.data
  IN IF ~w.sf.readable THEN load_failed(w)
     ELSE IF "current_node" \in missing THEN load_failed(w)
     ELSE LET w1 == [w EXCEPT !.gs.current_node = d.current_node]
     IN IF "visited_nodes" \in missing THEN load_failed(w1)
     ELSE LET w2 == [w1 EXCEPT
                       !.gs.visited_nodes = ListToSet(d.visited_nodes)]
     IN IF {"player", "combat_stats", "ability_stats"} \cap missing # {}
        THEN load_failed(w2)
     ELSE LET w3 == [w2 EXCEPT
                       !.p = [k \in DOMAIN @ |->
                                IF k \in CombatKeys
                                THEN d.player.combat_stats[k]
                                ELSE d.player.ability_stats[k]]]
     IN IF "inventory" \in missing THEN load_failed(w3)
     ELSE LET w4 == [w3 EXCEPT !.inv = d.player.inventory]
     IN IF "flags" \in missing THEN load_failed(w4)
     ELSE LET w5 == [w4 EXCEPT !.fl = d.player.flags]
     IN IF "spells" \in missing THEN load_failed(w5)
     ELSE LET w6 == [w5 EXCEPT !.br = IF "brands" \in missing THEN << >>
                                     ELSE d.player.brands]
     IN IF "node_states" \in missing THEN load_failed(w6)
     ELSE LET w7 == [w6 EXCEPT
                       !.as.nodes = [n \in DOMAIN @ |->
                                       IF n \in DOMAIN d.node_states
                                       THEN d.node_states[n] ELSE @[n]]]
     IN IF "object_states" \in missing THEN load_failed(w7)
     ELSE [show_current_location(init_systems(w7)) EXCEPT !.c.ret = <<1, 0>>]

----------------------------------------------------------------------------
(* Saving and loading between the steps of an exploration: the player      *)
(* walks, collects items and Brands, the game is saved, and it is loaded   *)
(* into the running engine or into one that was just constructed.  The     *)
(* file read may lack one of the keys load_game asks for.                  *)

SaveKeys == {"current_node", "visited_nodes", "player", "combat_stats",
             "ability_stats", "inventory", "flags", "spells", "brands",
             "node_states", "object_states"}
MissingKeys == {{}} \cup {{k} : k \in SaveKeys}

(* a status effect left on the player by an earlier battle *)
Poisoned ==
  << NewStatus([NoEffect EXCEPT !.type = "inflict_status",
                                !.status = "poison", !.duration = 2]) >>

(* GameState(): the state of an engine that was constructed and not yet   *)
(* told to start a new game                                               *)
NewGameState == [InitGameState EXCEPT !.current_node = "",
                                      !.visited_nodes = {}]

InitSave ==
  /\ player = InitPlayer
  /\ inventory = << >>
  /\ status_effects \in {<< >>, Poisoned}
  /\ brands = << >>
  /\ battle_state = NoBattle
  /\ game_state = InitGameState
  /\ bind_state = NoBind
  /\ last = NoCall
  /\ flags = << >>
  /\ action_system = InitActionSystem
  /\ enemies = InitEnemies
  /\ save_file = NoFile

SaveOutcomes == {"written", "open_failed", "dump_failed"}

SaveGame ==
  \E outcome \in SaveOutcomes : Commit(save_game(World, outcome))

LoadGame ==
  \E missing \in MissingKeys : Commit(load_game(World, missing))

NewEngine ==
  Commit([World EXCEPT !.c = [NoCall EXCEPT !.op = "GameEngine"],
                       !.p = InitPlayer, !.inv = << >>, !.st = << >>,
                       !.br = << >>, !.fl = << >>,
                       !.gs = NewGameState,
                       !.bs = NoBattle, !.bd = NoBind,
                       !.as = InitActionSystem])

Navigate ==
  /\ game_state.current_node \in NodeIds
  /\ \E n \in NodeIds :
       Commit(navigate_to(Begin(World, "navigate_to", n), n))

NextSave ==
  \/ SaveGame
  \/ LoadGame
  \/ NewEngine
  \/ Navigate
  \/ GetItem
  \/ AddBrand

SpecSave == InitSave /\ [][NextSave]_vars

----------------------------------------------------------------------------
(* core.py: the orchestrator lists the actions of the current context and  *)
(* executes the one chosen by index.  An entry of the list carries the     *)
(* keys the subsystem that built it wrote.                                 *)

ActionData(listed_by, t) ==
  [listed_by |-> listed_by, type |-> t, spell_id |-> None,
   item_id |-> None, action_id |-> None, index |-> 0]

(* BattleSystem.get_player_actions; the player of a new game knows no spell *)
get_player_actions(w) ==
  IF is_action_prevented(w.st) THEN << ActionData("battle", "prevented") >>
  ELSE LET usable == {i \in DOMAIN w.inv :
                        /\ w.inv[i] > 0
                        /\ i \in DOMAIN Items
                        /\ Items[i].type \in {"consumable", "usable"}}
           items == SetToList(usable)
       IN << ActionData("battle", "attack"), ActionData("battle", "defend") >>
          \o [k \in 1..Len(items) |->
                [ActionData("battle", "item") EXCEPT !.item_id = items[k]]]
          \o << ActionData("battle", "escape") >>

(* BindSequenceSystem.get_available_choices; the custom actions of the     *)
(* model declare no requirement                                            *)
get_available_choices(w) ==
  LET stage == get_current_stage(w)
  IN IF ~w.bd.exists \/ stage = NoStage THEN << >>
     ELSE LET Default(t) == IF get_override(stage, t).enabled
                            THEN << ActionData("bind", t) >> ELSE << >>
          IN Default("resist") \o Default("resist_hard") \o Default("wait")
             \o [k \in 1..Len(stage.custom_actions) |->
                   [ActionData("bind", "custom") EXCEPT
                      !.action_id = stage.custom_actions[k].id]]

(* GameEngine.get_available_actions: the bind sequence takes priority over *)
(* the battle                                                              *)
GameEngine_get_available_actions(w) ==
  IF w.gs.in_bind_sequence THEN get_available_choices(w)
  ELSE IF w.gs.in_battle THEN get_player_actions(w)
  ELSE IF w.gs.current_node \notin NodeIds THEN << >>
  ELSE LET node_actions == get_available_actions(w, w.gs.current_node)
       IN [k \in 1..Len(node_actions) |->
             [ActionData("node", "node_action") EXCEPT
                !.action_id = node_actions[k].id, !.index = k]]

(* the record of a call of execute_action: what was listed, who built the  *)
(* list and which subsystem was handed the entry                           *)
Dispatched(w, w0, action_data, handled_by) ==
  [w EXCEPT !.c.op = "execute_action",
            !.c.entry = action_data.type,
            !.c.listed_by = action_data.listed_by,
            !.c.handled_by = handled_by,
            !.c.gs0 = w0.gs, !.c.bs0 = w0.bs, !.c.bd0 = w0.bd]

(* _execute_battle_action: the bind sequence an enemy turn has signalled  *)
(* is started after the battle action                                     *)
start_signalled_sequence(w) ==
  IF w.gs.in_bind_sequence /\ w.gs.current_bind_sequence # None
  THEN start_sequence(Ev(w, "start_sequence"), w.gs.current_bind_sequence, 0)
  ELSE w

(* the battle system runs the end-of-battle callback inside the call of  *)
(* execute_player_action, when _end_battle is reached; the messages the   *)
(* call returns are emitted after it has returned                         *)
returned_from_battle(w) ==
  Emit(IF w.bs.exists /\ w.bs.is_over
       THEN on_battle_end(w, w.bs.player_won, w.c.escaped) ELSE w,
       "battle")

execute_battle_action(w0, action_data, rnd) ==
  start_signalled_sequence(
    Dispatched(returned_from_battle(
                 execute_player_action(
                   w0,
                   [type |-> action_data.type,
                    spell_id |-> action_data.spell_id,
                    item_id |-> action_data.item_id],
                   rnd)),
               w0, action_data, "battle"))

(* _execute_bind_action *)
execute_bind_action(w0, action_data, roll) ==
  Dispatched(execute_choice(w0, [type |-> action_data.type,
                                 action_id |-> action_data.action_id], roll),
             w0, action_data, "bind")

(* GameEngine.execute_action with an index outside the listing: nothing is *)
(* executed                                                                *)
execute_action_out_of_range(w0, action_index) ==
  [Begin(w0, "execute_action", action_index) EXCEPT !.c.noop = TRUE]

(* GameEngine.execute_action while game_state.in_battle holds: the entry   *)
(* listed at the index goes to the battle, whoever listed it               *)
execute_action_in_battle(w0, action_index, rnd) ==
  execute_battle_action(
    w0, GameEngine_get_available_actions(w0)[action_index + 1], rnd)

(* GameEngine.execute_action while in_battle is off and in_bind_sequence   *)
(* holds: the entry goes to the bind sequence                              *)
execute_action_in_bind_sequence(w0, action_index, roll) ==
  execute_bind_action(
    w0, GameEngine_get_available_actions(w0)[action_index + 1], roll)

----------------------------------------------------------------------------
(* The orchestrator in battle and in a bind sequence: a battle is started  *)
(* from the exploration against the enemy that binds, a sequence is        *)
(* started from the exploration, and the entries listed are executed by    *)
(* index; one index past the list is tried as well.  execute_action tests  *)
(* in_battle before in_bind_sequence: each outcome of that dispatch is an  *)
(* action of its own.                                                      *)

EngineShield == {0, SpMax}
EngineDexterity == {45, 60}
EngineEnemies == {"succubus"}
EngineSequences == {"vines"}
EngineRnd == {[NoRnd EXCEPT !.roll = x] : x \in {1, 2}}
EngineRolls == {1, 100}

InitEngine ==
  /\ player \in {[InitPlayer EXCEPT !.sp = x, !.dexterity = d] :
                    x \in EngineShield, d \in EngineDexterity}
  /\ inventory = << >>
  /\ status_effects = << >>
  /\ brands = << >>
  /\ battle_state = NoBattle
  /\ game_state = InitGameState
  /\ bind_state = NoBind
  /\ last = NoCall
  /\ flags = << >>
  /\ action_system = InitActionSystem
  /\ enemies = InitEnemies
  /\ save_file = NoFile

EngineStartBattle ==
  /\ ~game_state.game_over
  /\ ~game_state.in_battle
  /\ ~game_state.in_bind_sequence
  /\ ~battle_state.exists
  /\ \E e \in EngineEnemies : \E rnd \in EngineRnd :
       Commit(GameEngine_start_battle(Begin(World, "_start_battle", e),
                                      e, rnd))

EngineStartBindSequence ==
  /\ ~game_state.game_over
  /\ ~game_state.in_battle
  /\ ~game_state.in_bind_sequence
  /\ ~bind_state.exists
  /\ \E q \in EngineSequences :
       Commit(GameEngine_start_bind_sequence(
                Begin(World, "_start_bind_sequence", q), q))

EngineExecuteOutOfRange ==
  /\ ~game_state.game_over
  /\ game_state.in_battle \/ game_state.in_bind_sequence
  /\ last.op # "execute_action" \/ ~last.noop
  /\ Commit(execute_action_out_of_range(
              World, Len(GameEngine_get_available_actions(World))))

EngineExecuteInBattle ==
  /\ ~game_state.game_over
  /\ game_state.in_battle
  /\ battle_state.turn < MaxTurn
  /\ bind_state.exists => bind_state.turn < MaxBindTurn
  /\ \E action_index \in
          0..(Len(GameEngine_get_available_actions(World)) - 1) :
     \E rnd \in EngineRnd :
       Commit(execute_action_in_battle(World, action_index, rnd))

EngineExecuteInBindSequence ==
  /\ ~game_state.game_over
  /\ ~game_state.in_battle
  /\ game_state.in_bind_sequence
  /\ bind_state.exists => bind_state.turn < MaxBindTurn
  /\ \E action_index \in
          0..(Len(GameEngine_get_available_actions(World)) - 1) :
     \E roll \in EngineRolls :
       Commit(execute_action_in_bind_sequence(World, action_index, roll))

NextEngine ==
  \/ EngineStartBattle
  \/ EngineStartBindSequence
  \/ EngineExecuteOutOfRange
  \/ EngineExecuteInBattle
  \/ EngineExecuteInBindSequence

SpecEngine == InitEngine /\ [][NextEngine]_vars

----------------------------------------------------------------------------
(* The orchestrator in a battle against the enemy that names event nodes.  *)

EventEnemies == {"golem"}
EventRnd == {[NoRnd EXCEPT !.jitter = j, !.esc = x] :
               j \in Jitters, x \in RematchDraws}

EventStartBattle ==
  /\ ~game_state.game_over
  /\ ~game_state.in_battle
  /\ \E e \in EventEnemies :
       Commit(GameEngine_start_battle(Begin(World, "_start_battle", e),
                                      e, NoRnd))

EventBattleAction ==
  /\ ~game_state.game_over
  /\ game_state.in_battle
  /\ battle_state.turn < MaxTurn
  /\ \E action_index \in
          0..(Len(GameEngine_get_available_actions(World)) - 1) :
     \E rnd \in EventRnd :
       Commit(execute_action_in_battle(World, action_index, rnd))

NextEvents ==
  \/ EventStartBattle
  \/ EventBattleAction

SpecEvents == InitEngine /\ [][NextEvents]_vars

----------------------------------------------------------------------------
(* Exploration: the orchestrator hands node actions to the ActionSystem    *)
(* while the game runs outside battle and bind sequence; handlers are      *)
(* registered and the available actions are listed at any time.  An action *)
(* of the current node state may be executed whether or not it is listed:  *)
(* ActionSystem.execute_action checks the requirements itself.             *)

CurrentActions ==
  LET node_id == game_state.current_node
      state == action_system.nodes[node_id]
  IN IF state \in DOMAIN Nodes[node_id].states
     THEN Nodes[node_id].states[state].actions ELSE << >>

RegisterHandler ==
  \E k \in HandlerKinds :
    Commit(register_handler(Begin(World, "register_handler", k), k))

GetAvailableActions ==
  LET w == Begin(World, "get_available_actions", game_state.current_node)
      available == get_available_actions(w, game_state.current_node)
  IN Commit([w EXCEPT !.c.available =
               [i \in 1..Len(available) |-> available[i].id]])

ExecuteExplorationAction ==
  /\ ~game_state.game_over
  /\ ~game_state.in_battle
  /\ ~game_state.in_bind_sequence
  /\ \E i \in 1..Len(CurrentActions) : \E rnd \in EnemyRnd :
       Commit(execute_exploration_action(World, CurrentActions[i], rnd))

NextActions ==
  \/ RegisterHandler
  \/ GetAvailableActions
  \/ GetItem
  \/ ExecuteExplorationAction

SpecActions == Init /\ [][NextActions]_vars

----------------------------------------------------------------------------
(* Claims *)

C1_Shapes ==
  { <<"ticks", "action", "escaped">>,
    <<"ticks", "action", "enemy_check", "victory">>,
    <<"ticks", "action", "enemy_check", "enemy_turn", "defeat_check",
      "advance">>,
    <<"ticks", "action", "enemy_check", "enemy_turn", "defeat_check",
      "defeat">> }

(* C1: in an execute_player_action call without action prevention the      *)
(* events are, in order, status ticks, the chosen action, the enemy-defeat *)
(* check, the enemy turn, the player-defeat check and the turn advance;    *)
(* the enemy acts exactly once, and not at all after a victory or a        *)
(* successful escape; a failed escape still lets the enemy act.            *)
C1_ActionOrder ==
  (last.op = "execute_player_action" /\ ~last.noop /\ ~last.prevented) =>
    /\ last.ev \in C1_Shapes
    /\ last.enemy_turns =
         IF last.escaped \/ last.enemy_hp_after_action <= 0 THEN 0 ELSE 1
    /\ (last.ev[Len(last.ev)] = "victory") = (last.enemy_hp_after_action <= 0)
    /\ (last.arg = "escape" /\ ~last.escaped => last.enemy_turns = 1)

(* a failed escape after which the enemy acted and the turn advanced *)
C1_FailedEscape ==
  /\ last.op = "execute_player_action"
  /\ last.arg = "escape"
  /\ ~last.escaped
  /\ last.enemy_turns = 1
  /\ last.ev[Len(last.ev)] = "advance"

(* C2: without bypass, _deal_damage_to_player takes min(amount, SP) from SP *)
(* and the rest from HP and returns both parts; with bypass SP is          *)
(* unchanged, the returned shield part is 0 and HP loses the whole amount. *)
C2_DamageSplit ==
  last.op = "deal_damage" =>
    LET shield == IF last.amount <= last.sp0 THEN last.amount ELSE last.sp0
    IN IF last.bypass
       THEN /\ player.sp = last.sp0
            /\ player.hp = last.hp0 - last.amount
            /\ last.ret = <<0, last.amount>>
       ELSE /\ player.sp = last.sp0 - shield
            /\ player.hp = last.hp0 - (last.amount - shield)
            /\ last.ret = <<shield, last.amount - shield>>

(* damage larger than a positive shield: both SP and HP are reduced *)
C2_Overflow ==
  /\ last.op = "deal_damage"
  /\ ~last.bypass
  /\ last.sp0 > 0
  /\ last.amount > last.sp0
  /\ player.sp = 0
  /\ player.hp < last.hp0

(* C3: every combat stat of the player is within [0, its max] and every    *)
(* ability stat within [0, 100] after any sequence of operations.          *)
C3_StatsInRange ==
  /\ \A stat \in CombatStatNames :
       player[stat] >= 0 /\ player[stat] <= StatMax(stat)
  /\ \A stat \in AbilityStatNames : player[stat] >= 0 /\ player[stat] <= 100

(* C4: a climax resets PT to 0 and takes exactly 10 + pt_max // 5 from HP,  *)
(* directly, without reducing SP.                                          *)
C4_ClimaxPenalty ==
  last.climaxes > 0 =>
    /\ last.climax_pt_after = 0
    /\ last.climax_hp_after = last.climax_hp_before - (10 + PtMax \div 5)
    /\ last.climax_sp_after = last.climax_sp_before

(* C5: a defeat is flagged as a climax defeat, and a Brand created, only   *)
(* when the climax penalty itself took HP from above 0 to 0 or below.      *)
C5_ClimaxDefeatOnly ==
  (last.op \in {"execute_player_action", "start_battle"}) =>
    /\ (last.climaxes > 0 /\ battle_state.climax_defeat
          => last.climax_hp_before > 0 /\ last.climax_hp_after <= 0)
    /\ (last.brands_added > 0
          => last.climaxes > 0 /\ last.climax_hp_before > 0)

C6_AtMostOne ==
  \A e \in EnemyIds :
    Cardinality({i \in 1..Len(brands) : brands[i].enemy_id = e}) <= 1

C6_RatioKept ==
  \A e \in EnemyIds :
    has_brand(brands, e) /\ has_brand(brands', e)
      => get_brand_debuff(brands', e) = get_brand_debuff(brands, e)

(* C6: the player holds at most one Brand per enemy id, and no step (a     *)
(* climax defeat or an add_brand call for an enemy that already branded    *)
(* the player) changes the debuff ratio of an existing Brand.              *)
C6_OneBrandPerEnemy == [](C6_AtMostOne) /\ [][C6_RatioKept]_vars

(* a climax defeat by an enemy whose Brand, of another ratio, was held *)
C6_SecondClimaxDefeat ==
  /\ last.op = "execute_player_action"
  /\ battle_state.climax_defeat
  /\ game_state.game_over
  /\ last.brands_added = 0
  /\ brands = << [enemy_id |-> battle_state.enemy, debuff_ratio |-> 30] >>

(* C7: start_battle sets player_first = (dexterity >= initiative); with    *)
(* the enemy first exactly one enemy turn runs inside start_battle and a   *)
(* defeat it causes is resolved before the return; with the player first   *)
(* no enemy turn runs.                                                     *)
C7_TurnOrder ==
  last.op = "start_battle" =>
    LET first == player.dexterity >= Enemies[last.arg].initiative
    IN /\ battle_state.player_turn_first = first
       /\ last.enemy_turns = IF first THEN 0 ELSE 1
       /\ (first => last.ev = << >>)
       /\ (player.hp <= 0 => /\ battle_state.is_over
                             /\ game_state.game_over
                             /\ ~game_state.in_battle)

(* the enemy moved first and its opening turn defeated the player *)
C7_OpeningDefeat ==
  /\ last.op = "start_battle"
  /\ ~battle_state.player_turn_first
  /\ last.enemy_turns = 1
  /\ player.hp <= 0
  /\ game_state.game_over

(* C8: after an execute_choice that does not end the sequence the stage is *)
(* at most the last declared stage; loop damage and the stage's loop       *)
(* effects are applied exactly once in a call whose choice pushed the      *)
(* stage above the maximum, and not at all in any other call.              *)
C8_StageWithinMax ==
  (last.op = "execute_choice" /\ ~last.noop /\ ~last.ended) =>
    LET stages == BindSequences[bind_state.sequence].stages
        max_stage == Len(stages) - 1
        over == last.stage_after_choice > max_stage
    IN /\ bind_state.current_stage <= max_stage
       /\ last.loops = IF over THEN 1 ELSE 0
       /\ last.loop_effects =
            IF over THEN Len(stages[last.stage0 + 1].loop_effects) ELSE 0

(* C9: a negative bind stage means the sequence was terminated as escaped. *)
C9_NegativeStageEscapes ==
  (bind_state.exists /\ bind_state.current_stage < 0) =>
    /\ bind_state.escaped
    /\ ~game_state.in_bind_sequence
    /\ ~is_in_sequence(bind_state)

(* C10: a rolled resist has rate clamp(100 - base_difficulty + modifier +  *)
(* bonus, 5, 95), a rolled resist_hard clamp(50 - base_difficulty // 2 +   *)
(* modifier + bonus, 5, 95); base_difficulty 50 without modifier and bonus *)
(* gives a resist rate of exactly 50.                                      *)
C10_SuccessRate ==
  (last.op = "execute_choice" /\ last.rolled # None) =>
    LET q == BindSequences[bind_state.sequence]
        base_difficulty == q.config.base_difficulty
        overrides == q.stages[last.stage0 + 1].default_choices_override
        modifier == IF last.rolled \in DOMAIN overrides
                    THEN overrides[last.rolled].success_rate_modifier ELSE 0
        base == IF last.rolled = "resist" THEN 100 - base_difficulty
                ELSE 50 - base_difficulty \div 2
        raw == base + modifier + last.bonus0
        clamped == IF raw < 5 THEN 5 ELSE IF raw > 95 THEN 95 ELSE raw
    IN /\ last.rate = clamped
       /\ (last.rolled = "resist" /\ base_difficulty = 50 /\ modifier = 0
             /\ last.bonus0 = 0 => last.rate = 50)

(* a rolled resist whose modifier pushed the rate below the lower clamp *)
C10_ClampedLow ==
  /\ last.op = "execute_choice"
  /\ last.rolled = "resist"
  /\ last.bonus0 = 0
  /\ last.rate = 5

(* C11: the consequence of resist and resist_hard depends only on success  *)
(* or failure, not on whether the outcome was rolled or forced by an       *)
(* override: resist success regresses the stage by 1, resist failure       *)
(* progresses it by 1 and adds 10 PT, resist_hard success escapes at once, *)
(* resist_hard failure progresses by 1 and adds 25 PT; an override never   *)
(* performs the random check.                                              *)
C11_OutcomeOnly ==
  (last.op = "execute_choice" /\ ~last.noop
     /\ last.arg \in {"resist", "resist_hard"}) =>
    LET overrides == BindSequences[bind_state.sequence]
                       .stages[last.stage0 + 1].default_choices_override
        forced == IF last.arg \in DOMAIN overrides
                  THEN overrides[last.arg].override_result ELSE None
        pt_gain == IF last.arg = "resist" THEN 10 ELSE 25
        capped == IF last.p0.pt + pt_gain > PtMax THEN PtMax
                  ELSE last.p0.pt + pt_gain
        success == /\ last.stage_after_choice =
                        IF last.arg = "resist" THEN last.stage0 - 1 ELSE -1
                   /\ last.p1.pt = last.p0.pt
        failure == /\ last.stage_after_choice = last.stage0 + 1
                   /\ last.p1.pt = capped
    IN /\ success \/ failure
       /\ (forced = "auto_success" => success /\ last.rolled = None)
       /\ (forced = "auto_fail" => failure /\ last.rolled = None)

C12_WaitForced ==
  LET overrides == BindSequences[bind_state.sequence]
                     .stages[last.stage0 + 1].default_choices_override
  IN IF "wait" \in DOMAIN overrides THEN overrides["wait"].override_result
     ELSE None

C12_BonusConsumed ==
  (last.op = "execute_choice" /\ last.rolled # None) =>
    LET q == BindSequences[bind_state.sequence]
        overrides == q.stages[last.stage0 + 1].default_choices_override
        modifier == IF last.rolled \in DOMAIN overrides
                    THEN overrides[last.rolled].success_rate_modifier ELSE 0
        base == IF last.rolled = "resist"
                THEN 100 - q.config.base_difficulty
                ELSE 50 - q.config.base_difficulty \div 2
        raw == base + modifier + last.bonus0
    IN /\ bind_state.next_turn_bonus = 0
       /\ (raw >= 5 /\ raw <= 95 => last.rate = raw)

C13_Action ==
  LET actions == BindSequences[last.bd0.sequence]
                   .stages[last.stage0 + 1].custom_actions
  IN actions[CHOOSE i \in 1..Len(actions) : actions[i].id = last.action_id]

C13_Cost(stat) ==
  LET cost == C13_Action.cost
      found == {i \in 1..Len(cost) : cost[i].stat = stat}
  IN IF found = {} THEN 0 ELSE cost[CHOOSE i \in found : TRUE].amount

(* C13: a custom action with a cost component the player cannot afford is  *)
(* rejected with nothing deducted (MP, HP and inventory unchanged, neither *)
(* effect list run); when every component is affordable each one is        *)
(* deducted exactly once.                                                  *)
C13_CostAllOrNothing ==
  (last.op = "execute_choice" /\ last.action_id # None) =>
    LET affordable == /\ last.p0.mp >= C13_Cost("mp")
                      /\ last.p0.hp >= C13_Cost("hp")
    IN IF affordable
       THEN /\ last.branch # None
            /\ last.p1.mp = last.p0.mp - C13_Cost("mp")
            /\ last.p1.hp = last.p0.hp - C13_Cost("hp")
       ELSE /\ last.branch = None
            /\ last.p1.mp = last.p0.mp
            /\ last.p1.hp = last.p0.hp
            /\ last.inv1 = last.inv0

(* C14: when the player is action-prevented at the call, the chosen action *)
(* is not applied (enemy HP, player MP and inventory are as before the     *)
(* call), the enemy turn runs exactly once, player defeat is checked, and  *)
(* a surviving player sees the turn counter advance by exactly one.        *)
C14_PreventedTurn ==
  (last.op = "execute_player_action" /\ ~last.noop
     /\ is_action_prevented(last.st0)) =>
    /\ last.prevented
    /\ battle_state.enemy_hp = last.bs0.enemy_hp
    /\ player.mp = last.p0.mp
    /\ inventory = last.inv0
    /\ last.enemy_turns = 1
    /\ \/ /\ last.ev = <<"ticks", "enemy_turn", "defeat_check", "advance">>
          /\ ~battle_state.is_over
          /\ battle_state.turn = last.bs0.turn + 1
       \/ /\ last.ev = <<"ticks", "enemy_turn", "defeat_check", "defeat">>
          /\ battle_state.is_over
          /\ ~battle_state.player_won
          /\ battle_state.turn = last.bs0.turn

(* a prevented player chose to attack, the enemy acted and the turn moved on *)
C14_PreventedAttack ==
  /\ last.op = "execute_player_action"
  /\ is_action_prevented(last.st0)
  /\ last.arg = "attack"
  /\ last.enemy_turns = 1
  /\ battle_state.turn = last.bs0.turn + 1

(* the chosen spell asks more MP than the player has, or the chosen item   *)
(* is not held, and the player is free to act                              *)
C15_Rejected ==
  /\ last.op = "execute_player_action"
  /\ ~last.noop
  /\ ~is_action_prevented(last.st0)
  /\ \/ /\ last.arg = "spell"
        /\ last.action_id \in DOMAIN Spells
        /\ last.p0.mp < Spells[last.action_id].mp
     \/ /\ last.arg = "item"
        /\ InvCount(last.inv0, last.action_id) < 1

(* C15: a spell the player cannot pay for, or an item the player does not  *)
(* hold, is rejected with no state mutation: player stats, enemy state,    *)
(* active statuses and the turn counter are after the call as before it.   *)
C15_RejectedNoMutation ==
  C15_Rejected =>
    /\ player = last.p0
    /\ inventory = last.inv0
    /\ status_effects = last.st0
    /\ battle_state.enemy_hp = last.bs0.enemy_hp
    /\ battle_state.turn = last.bs0.turn

(* the last call named a sequence that is not defined: start_sequence      *)
(* directly, or the switch_bind_sequence effect of the custom action flee  *)
C16_UndefinedTarget ==
  \/ last.op = "start_sequence" /\ last.arg \notin SequenceIds
  \/ /\ last.op = "execute_choice"
     /\ last.action_id = "flee"
     /\ last.branch = "on_success"

(* C16: starting or switching to a sequence whose id is not defined gives  *)
(* one not-found message and leaves in_bind_sequence,                      *)
(* current_bind_sequence, current_bind_stage and the active bind state     *)
(* unchanged.                                                              *)
C16_UndefinedLeavesState ==
  C16_UndefinedTarget =>
    /\ last.not_found = 1
    /\ game_state.in_bind_sequence = last.gs0.in_bind_sequence
    /\ game_state.current_bind_sequence = last.gs0.current_bind_sequence
    /\ game_state.current_bind_stage = last.gs0.current_bind_stage
    /\ bind_state.exists = last.bd0.exists
    /\ bind_state.sequence = last.bd0.sequence
    /\ bind_state.current_stage = last.bd0.current_stage

(* the action the last exploration call was given *)
C17_Action ==
  LET all == HallActions \o OpenHallActions \o CryptActions
  IN all[CHOOSE i \in 1..Len(all) : all[i].id = last.arg]

(* the messages an effect list leaves in the result, effect by effect *)
RECURSIVE C17_Messages(_, _)
C17_Messages(effects, handlers) ==
  IF effects = << >> THEN << >>
  ELSE LET e == Head(effects)
           own == IF e.type \in handlers THEN << <<"plugin", e.type>> >>
                  ELSE IF e.type = "message" /\ e.text # None
                  THEN << <<"text", e.text>> >>
                  ELSE IF e.type = "game_over" THEN << <<"text", e.reason>> >>
                  ELSE << >>
       IN own \o C17_Messages(Tail(effects), handlers)

C17_LastOf(effects, kinds) ==
  LET found == {i \in 1..Len(effects) : effects[i].type \in kinds}
  IN IF found = {} THEN 0 ELSE CHOOSE i \in found : \A j \in found : j <= i

C18_Switch ==
  LET effects == IF last.op = "execute_exploration_action"
                 THEN C17_Action.effects ELSE C13_Action.on_success
      k == C17_LastOf(effects, {"switch_bind_sequence"})
  IN IF k = 0 THEN Effect(None) ELSE effects[k]

(* the last call ran the effects of an action to the end *)
C18_Ran ==
  \/ last.op = "execute_exploration_action" /\ last.result.success
  \/ /\ last.op = "execute_choice"
     /\ last.action_id # None
     /\ last.branch = "on_success"

(* C18: after an operation that executed a switch_bind_sequence effect     *)
(* naming a defined sequence and a stage s, that sequence is active at     *)
(* stage s: the bind state's current stage and                             *)
(* game_state.current_bind_stage are both s.                               *)
C18_SwitchReachesStage ==
  (C18_Ran /\ C18_Switch.target \in SequenceIds) =>
    /\ bind_state.exists
    /\ bind_state.sequence = C18_Switch.target
    /\ bind_state.current_stage = C18_Switch.stage
    /\ game_state.current_bind_stage = C18_Switch.stage

(* all requirements of a list hold for the given player, inventory, flags *)
C19_AllHold(requirements, p, inv, fl) ==
  \A i \in 1..Len(requirements) :
    check_requirement([World EXCEPT !.p = p, !.inv = inv, !.fl = fl],
                      requirements[i])

C19_Declared == HallActions \o OpenHallActions \o CryptActions

(* C19: check_requirements is true exactly when every requirement of the   *)
(* list holds (true for the empty list, a requirement of unknown kind      *)
(* counting as satisfied); get_available_actions lists exactly the actions *)
(* of the current node state whose requirements hold, in declared order;   *)
(* execute_action on an action whose requirements do not hold runs no      *)
(* effect and leaves the game state unchanged.                             *)
C19_Requirements ==
  /\ \A i \in 1..Len(C19_Declared) :
       check_requirements(World, C19_Declared[i].requirements)
         = C19_AllHold(C19_Declared[i].requirements, player, inventory, flags)
  /\ check_requirements(World, << >>)
  /\ check_requirements(World, << Requirement("moon_phase") >>)
  /\ last.op = "get_available_actions" =>
       LET held == SelectSeq(CurrentActions,
                     LAMBDA a : C19_AllHold(a.requirements,
                                            player, inventory, flags))
       IN last.available = [i \in 1..Len(held) |-> held[i].id]
  /\ last.op = "execute_exploration_action" =>
       /\ last.result.success
            = C19_AllHold(C17_Action.requirements,
                          last.p0, last.inv0, last.fl0)
       /\ ~last.result.success =>
            /\ last.ev = << >>
            /\ player = last.p0
            /\ inventory = last.inv0
            /\ flags = last.fl0
            /\ game_state = last.gs0
            /\ action_system = last.as0
            /\ battle_state = last.bs0
            /\ bind_state = last.bd0

(* doom was refused while one of its two requirements held *)
C19_DoomRefused ==
  /\ last.op = "execute_exploration_action"
  /\ last.arg = "doom"
  /\ ~last.result.success
  /\ InvCount(inventory, "incense") >= 1
  /\ player.pt < 60
  /\ ~game_state.game_over

(* the messages an effect list leaves when a built-in kind is always run   *)
(* by the built-in implementation                                          *)
RECURSIVE C20_Messages(_, _)
C20_Messages(effects, handlers) ==
  IF effects = << >> THEN << >>
  ELSE LET e == Head(effects)
           own == IF e.type \in BuiltinKinds
                  THEN C17_Messages(<<e>>, {})
                  ELSE IF e.type \in handlers
                  THEN << <<"plugin", e.type>> >>
                  ELSE << >>
       IN own \o C20_Messages(Tail(effects), handlers)

(* C20: an effect of a built-in kind is run by the built-in implementation *)
(* even when a handler is registered under the same kind; an effect of any *)
(* other kind goes to the handler registered for it; an effect whose kind  *)
(* is neither built-in nor registered is skipped without state change or   *)
(* message while the remaining effects still run.                          *)
C20_ClosedCatalog ==
  (last.op = "execute_exploration_action" /\ last.result.success) =>
    /\ Len(last.ev) >= Len(C17_Action.effects)
    /\ last.result.messages
         = C20_Messages(C17_Action.effects, last.as0.custom_handlers)

(* C21: for every dexterity and initiative the success probability of the  *)
(* ESCAPE action is clamp(0.5 + 0.01 * (dexterity - initiative), 0.1, 0.9) *)
(* and never leaves [0.1, 0.9]; probabilities are in percent.              *)
C21_EscapeChance ==
  (last.op = "execute_player_action" /\ ~last.noop /\ ~last.prevented
     /\ last.arg = "escape") =>
    LET raw == 50 + (last.p0.dexterity - Enemies[last.bs0.enemy].initiative)
        clamped == IF raw < 10 THEN 10 ELSE IF raw > 90 THEN 90 ELSE raw
    IN /\ last.rate = clamped
       /\ last.rate >= 10
       /\ last.rate <= 90
       /\ last.escaped = (last.esc < last.rate)

(* a hopeless escape still has its ten percent: dexterity 0 against        *)
(* initiative 60, and the draw 9 gets the player out                       *)
C21_ClampedLowEscape ==
  /\ last.op = "execute_player_action"
  /\ last.arg = "escape"
  /\ 50 + (last.p0.dexterity - Enemies[last.bs0.enemy].initiative) < 10
  /\ last.rate = 10
  /\ last.esc = 9
  /\ last.escaped

(* C22: every executed player ATTACK lowers the enemy's current HP by at   *)
(* least 1, whatever the strength, the enemy's defense and defending       *)
(* state, the Brand debuff and the jitter.                                 *)
C22_AttackHurts ==
  (last.op = "execute_player_action" /\ ~last.noop /\ ~last.prevented
     /\ last.arg = "attack") =>
    last.enemy_hp_after_action <= last.bs0.enemy_hp - 1

----------------------------------------------------------------------------
(* C23: damage of type "pt" dealt to the player in battle raises PT by the *)
(* amount, capped at pt_max, and while PT stays below pt_max it reduces    *)
(* neither HP nor SP; successive PT damage accumulates on the PT left by   *)
(* the previous hit.                                                       *)
C23_PtDamageRaisesPt ==
  \A i \in 1..Len(last.typed_hits) :
    LET h == last.typed_hits[i]
    IN h.damage_type = "pt" =>
         /\ h.after.pt = Min(PtMax, h.before.pt + h.damage)
         /\ h.after.pt < PtMax =>
              /\ h.after.hp = h.before.hp
              /\ h.after.sp = h.before.sp

----------------------------------------------------------------------------
(* C24: every start_battle creates a battle enemy whose current_hp is the  *)
(* template's max hp and whose cooldown map is empty, whatever earlier     *)
(* battles with the same template did; no battle operation changes the    *)
(* template's current_hp or cooldowns.                                     *)
C24_FreshEnemy ==
  /\ enemies = InitEnemies
  /\ save_file = NoFile
  /\ last.op = "start_battle" =>
       /\ last.created = [current_hp |-> Enemies[last.arg].hp,
                          cooldowns |-> << >>]
       /\ battle_state.enemy_hp = Enemies[last.arg].hp

(* a battle started against a template whose previous battle ended with   *)
(* the enemy hurt and a cooldown running                                   *)
C24_RematchAfterDamage ==
  /\ last.op = "start_battle"
  /\ last.bs0.exists
  /\ last.bs0.enemy = last.arg
  /\ last.bs0.enemy_hp < Enemies[last.arg].hp
  /\ last.bs0.cooldowns # << >>

----------------------------------------------------------------------------
(* C25: after any operation that grants or consumes items every inventory  *)
(* entry has a count of at least 1: no count is negative and an entry      *)
(* whose count reaches 0 is removed.                                       *)
C25_CountsPositive ==
  \A k \in DOMAIN inventory : inventory[k] >= 1

----------------------------------------------------------------------------
(* C26: for a non-empty pool of total weight T > 0 and a roll in 1..T the  *)
(* weighted selector returns the first option whose cumulative weight      *)
(* reaches the roll, so no option of weight 0 is returned and every option *)
(* of positive weight is returned for some roll; with total weight 0 it    *)
(* returns one of the options, each of them for some draw, never nothing.  *)
RECURSIVE C26_Cumulative(_, _)
C26_Cumulative(options, j) ==
  IF j = 0 THEN 0 ELSE options[j].weight + C26_Cumulative(options, j - 1)

C26_Values(options) == {options[j].value : j \in 1..Len(options)}

C26_WeightedSelection ==
  /\ \A q \in DOMAIN SpellPools : \A r \in SelectDraws :
       select_from_spell_pool(q, r) = weighted_random(SpellPools[q], r)
  /\ last.op = "_weighted_random" =>
    LET options == last.arg
        T == C26_Cumulative(options, Len(options))
    IN IF T > 0
       THEN LET roll == ((last.roll - 1) % T) + 1
                first == CHOOSE j \in 1..Len(options) :
                           /\ C26_Cumulative(options, j) >= roll
                           /\ \A k \in 1..(j - 1) :
                                C26_Cumulative(options, k) < roll
            IN /\ last.rolled = options[first].value
               /\ options[first].weight > 0
               /\ \A j \in 1..Len(options) :
                    options[j].weight > 0 =>
                      \E r \in 1..T :
                        weighted_random(options, r) = options[j].value
               /\ \A j \in 1..Len(options) :
                    options[j].weight = 0 =>
                      \A r \in 1..T :
                        weighted_random(options, r) # options[j].value
       ELSE /\ last.rolled \in C26_Values(options)
            /\ \A j \in 1..Len(options) :
                 \E r \in 1..Len(options) :
                   weighted_random(options, r) = options[j].value

(* a draw over a pool of positive total weight whose first option has     *)
(* weight 0: the second option was returned                                *)
C26_ZeroWeightSkipped ==
  /\ last.op = "_weighted_random"
  /\ Len(last.arg) >= 2
  /\ last.arg[1].weight = 0
  /\ last.arg[2].weight > 0
  /\ last.rolled = last.arg[2].value

----------------------------------------------------------------------------
(* C27: a load_game that fails reports a message, returns False and leaves *)
(* the in-memory game state exactly as it was before the call; a failed    *)
(* save_game likewise changes no in-memory state.                          *)
C27_FailedCall ==
  last.op \in {"load_game", "save_game"} /\ last.ret[1] = 0

C27_FailureKeepsMemory ==
  C27_FailedCall =>
    /\ Memory(World) = last.mem0
    /\ last.result.messages # << >>
    /\ ~last.result.success

----------------------------------------------------------------------------
(* C28: save_game followed by load_game restores the saved snapshot: after *)
(* load_game returns, the current node, the visited set, the player record *)
(* (stats, inventory, flags, Brands, active status effects) and the state  *)
(* of every node equal their values at the time of save_game.              *)
C28_LoadRestoresSnapshot ==
  (last.op = "load_game" /\ last.ret[1] = 1 /\ last.arg = {}) =>
    Memory(World) = save_file.saved_from

----------------------------------------------------------------------------
(* C29: execute_action(index) hands the chosen entry to the subsystem that *)
(* produced the list: a bind choice listed while a bind sequence is active *)
(* during a battle is executed by the bind system, not interpreted as a    *)
(* battle action, and the sequence is not restarted.                       *)
C29_HandledByLister ==
  (last.op = "execute_action" /\ ~last.noop) =>
    /\ last.listed_by = "bind" => last.handled_by = "bind"
    /\ last.listed_by = "battle" => last.handled_by = "battle"
    /\ (last.listed_by = "bind" /\ last.gs0.in_battle) =>
         /\ battle_state.turn = last.bs0.turn
         /\ "start_sequence" \notin {last.ev[i] : i \in 1..Len(last.ev)}

----------------------------------------------------------------------------
(* C30: after every GameEngine operation game_state.in_battle holds        *)
(* exactly when the battle system is in a battle, and                      *)
(* game_state.in_bind_sequence exactly when the bind system is in a        *)
(* sequence.                                                               *)
C30_FlagsAgree ==
  /\ game_state.in_battle <=> is_in_battle(battle_state)
  /\ game_state.in_bind_sequence <=> is_in_sequence(bind_state)

(* C31: once a battle is over (victory, defeat or escape), a call of       *)
(* execute_player_action changes neither the player, nor the enemy and the *)
(* battle, nor the GameState; only start_battle leaves the Over state.     *)
C31_OverAbsorbing ==
  [][(battle_state.exists /\ battle_state.is_over
      /\ last'.op = "execute_player_action")
     => (player' = player /\ battle_state' = battle_state
         /\ game_state' = game_state /\ status_effects' = status_effects)]_vars

(* C32: when execute_player_action returns with player HP <= 0, the call   *)
(* has ended the battle as a player defeat: the battle is neither still    *)
(* active, nor won, nor escaped.                                          *)
C32_DepletionIsDefeat ==
  (last.op = "execute_player_action" /\ ~last.noop /\ player.hp <= 0) =>
    /\ battle_state.is_over
    /\ ~battle_state.player_won
    /\ ~last.escaped
    /\ game_state.game_over

(* C33: an effect of a kind both engines know, applied inside a bind       *)
(* sequence, leaves the player's stats and the flags as the main effect    *)
(* interpreter leaves them from the same state, and moves the bind stage   *)
(* as the interpreter does (regress floored at -1; escape_bind leaves the  *)
(* sequence in both).                                                      *)
C33_Interpreted ==
  execute_effect([World EXCEPT !.p = last.p0, !.bd = last.bd0,
                               !.gs = last.gs0, !.fl = last.fl0,
                               !.c = NoCall],
                 AsEffect(last.arg))

C33_SameAsInterpreter ==
  last.op = "apply_effects" =>
    /\ player = C33_Interpreted.p
    /\ flags = C33_Interpreted.fl
    /\ last.arg.type \in {"stage_progress", "stage_regress"} =>
         bind_state.current_stage = C33_Interpreted.gs.current_bind_stage
    /\ last.arg.type = "escape_bind" =>
         (bind_state.current_stage = -1
          /\ ~C33_Interpreted.gs.in_bind_sequence)

(* C34: a call of execute_player_action in a live battle that does not    *)
(* end the battle raises the turn counter by exactly 1 and lowers the      *)
(* remaining turns of every status effect active at the call by exactly 1, *)
(* dropping those that reach 0; a call that ends the battle changes        *)
(* neither; the ticks of the statuses active at the call are applied once, *)
(* before the player's action.                                             *)
C34_Aged ==
  SelectSeq([i \in 1..Len(last.st0) |->
               [last.st0[i] EXCEPT !.remaining_turns = @ - 1]],
            LAMBDA x : x.remaining_turns > 0)

C34_TicksAt == {i \in 1..Len(last.ev) : last.ev[i] = "ticks"}

C34_TurnAndDurations ==
  (last.op = "execute_player_action" /\ ~last.noop /\ ~last.bs0.is_over) =>
    /\ C34_TicksAt = {1}
    /\ last.ticked = Len(last.st0)
    /\ IF battle_state.is_over
       THEN /\ battle_state.turn = last.bs0.turn
            /\ Len(status_effects) >= Len(last.st0)
            /\ SubSeq(status_effects, 1, Len(last.st0)) = last.st0
       ELSE /\ battle_state.turn = last.bs0.turn + 1
            /\ Len(status_effects) >= Len(C34_Aged)
            /\ SubSeq(status_effects, 1, Len(C34_Aged)) = C34_Aged
            /\ \A i \in 1..Len(status_effects) :
                 status_effects[i].remaining_turns > 0

C34_StatusExpired ==
  /\ last.op = "execute_player_action"
  /\ ~battle_state.is_over
  /\ battle_state.turn = last.bs0.turn + 1
  /\ Len(last.st0) > 0
  /\ Len(C34_Aged) < Len(last.st0)
  /\ StatusTickDamage(last.st0) > 0

(* C35: during the enemy turn of a call of execute_player_action the      *)
(* player is defending only if DEFEND was chosen in that call, and is      *)
(* defending if DEFEND was chosen and carried out; a defend of an earlier  *)
(* turn never reaches a later enemy turn, also when the player is          *)
(* prevented from acting.  (The enemy turn leaves player_defending as it   *)
(* found it.)                                                              *)
C35_DefendOnlyThisTurn ==
  (last.op = "execute_player_action" /\ ~last.noop /\ last.enemy_turns > 0
   /\ ~last.bs0.is_over) =>
    /\ last.arg # "defend" => ~battle_state.player_defending
    /\ (last.arg = "defend" /\ ~last.prevented) =>
         battle_state.player_defending

(* C36: in every call that holds an enemy turn: a bind attack takes effect *)
(* only with player SP 0 and otherwise changes nothing; when it fires it   *)
(* raises the bind-sequence mode and records its cooldown c; every enemy   *)
(* turn first lowers each cooldown by 1 and removes it at 0, and the bind  *)
(* attack is not attempted while its entry remains, so that it is not      *)
(* ready in the c - 1 enemy turns after it fired and ready from the c-th;  *)
(* no entry of value <= 0 is left after an enemy turn.                     *)
C36_Before ==
  IF last'.op = "start_battle" THEN << >> ELSE battle_state.cooldowns

C36_Aged ==
  [k \in {k \in DOMAIN C36_Before : C36_Before[k] > 1} |->
     C36_Before[k] - 1]

C36_Signals(gs) ==
  <<gs.in_bind_sequence, gs.current_bind_sequence, gs.current_bind_stage>>

C36_Step ==
  (last'.op \in {"start_battle", "execute_player_action"}
   /\ last'.enemy_turns = 1) =>
    /\ \A k \in DOMAIN battle_state'.cooldowns :
         battle_state'.cooldowns[k] >= 1
    /\ "bind_attack" \in DOMAIN C36_Aged => last'.bind_attack = None
    /\ last'.bind_attack = "fired" =>
         /\ player'.sp = 0
         /\ battle_state'.cooldowns =
              [k \in DOMAIN C36_Aged \cup {"bind_attack"} |->
                 IF k = "bind_attack"
                 THEN Enemies[battle_state'.enemy].behavior_tree
                        .children[1].action.cooldown
                 ELSE C36_Aged[k]]
         /\ game_state'.in_bind_sequence
         /\ game_state'.current_bind_sequence = "vines"
    /\ last'.bind_attack = "blocked" => player'.sp > 0
    /\ last'.bind_attack # "fired" =>
         /\ battle_state'.cooldowns = C36_Aged
         /\ C36_Signals(game_state') = C36_Signals(game_state)
    /\ last'.bind_attack = "blocked" =>
         /\ player'.hp = player.hp
         /\ player'.pt = player.pt

C36_BindAttackCooldown == [][C36_Step]_vars

(* the bind attack fires again exactly when its cooldown of 3 has run out  *)
C36_FiredAgain ==
  /\ last.op = "execute_player_action"
  /\ last.bind_attack = "fired"
  /\ "bind_attack" \in DOMAIN last.bs0.cooldowns
  /\ last.bs0.cooldowns["bind_attack"] = 1
  /\ battle_state.cooldowns["bind_attack"] = 3

(* C37: when a call of execute_choice finishes with player HP <= 0 (loop  *)
(* damage, an HP cost, a self-damage effect) the game is over, and no      *)
(* bind sequence still offers choices to a player at HP <= 0.              *)
C37_DefeatEndsGame ==
  (last.op = "execute_choice" /\ ~last.noop /\ player.hp <= 0) =>
    /\ game_state.game_over
    /\ ~game_state.in_bind_sequence

(* C38: when a call of execute_action ends a battle against an enemy that *)
(* names an event node, the messages of the final battle turn reach the    *)
(* presentation layer before any message of the node the end-of-battle     *)
(* callback navigates to.                                                  *)
C38_At(m) == {i \in 1..Len(last.emitted) : last.emitted[i] = m}

C38_CausalOrder ==
  (last.op = "execute_action" /\ last.handled_by = "battle"
   /\ C38_At("location") # {}) =>
    \A i \in C38_At("battle") : \A j \in C38_At("location") : i < j

(* C39: a condition record evaluated as a node-state trigger gives the    *)
(* boolean it gives as an action requirement, for every kind (unknown      *)
(* kinds included), stat token (aliases included) and player state.        *)
C39_OnePredicate ==
  /\ last.op = "evaluate_trigger" =>
       ((last.ret[1] = 1) <=> check_requirement(World, last.arg))
  /\ last.op = "check_requirement" =>
       ((last.ret[1] = 1) <=> evaluate_trigger(World, last.arg))


----------------------------------------------------------------------------
(* bind_sequence.py: the success check of kind "stat_based" *)

(* the stat_map of _evaluate_formula; the Japanese tokens are in romaji *)
FormulaStatMap(w) ==
  [t \in AbilityStatNames \cup
         {"seiki", "kinryoku", "shuuchuu", "chisei", "chishiki", "kiyou"} |->
     w.p[normalize_stat_name(t)]]

(* _evaluate_formula for the formulas "<token> - k" and "<token> // k": a  *)
(* token outside the stat_map stays a name, eval raises and 50 is returned *)
evaluate_formula(w, formula) ==
  IF formula.stat \notin DOMAIN FormulaStatMap(w) THEN 50
  ELSE IF formula.op = "-" THEN FormulaStatMap(w)[formula.stat] - formula.k
  ELSE IF formula.k = 0 THEN 50
  ELSE FormulaStatMap(w)[formula.stat] \div formula.k

(* the loop over check.modifiers; a status_penalty modifier calls          *)
(* effect.get on the first StatusEffectInstance, which has no such method  *)
RECURSIVE apply_modifiers(_, _, _)
apply_modifiers(w, modifiers, rate) ==
  IF modifiers = << >> THEN [raised |-> None, rate |-> rate]
  ELSE LET modifier == Head(modifiers) IN
       CASE modifier.type = "flag_bonus" ->
              apply_modifiers(w, Tail(modifiers),
                IF modifier.flag \in DOMAIN w.fl /\ w.fl[modifier.flag] # ""
                THEN rate + modifier.bonus ELSE rate)
         [] modifier.type = "item_bonus" ->
              apply_modifiers(w, Tail(modifiers),
                IF InvCount(w.inv, modifier.item) > 0
                THEN rate + modifier.bonus ELSE rate)
         [] modifier.type = "status_penalty" ->
              IF w.st # << >>
              THEN [raised |-> "AttributeError", rate |-> rate]
              ELSE apply_modifiers(w, Tail(modifiers), rate)
         [] OTHER -> apply_modifiers(w, Tail(modifiers), rate)

Formula(stat, op, k) == [stat |-> stat, op |-> op, k |-> k]

(* formula: Optional[str] = None *)
NoFormula == Formula(None, None, 0)

(* _check_custom_success, branch "stat_based"; the result is w.c.ret[1]    *)
check_stat_based(w, check, roll) ==
  LET rate0 == check.base_rate
               + (IF check.formula # NoFormula
                  THEN evaluate_formula(w, check.formula) ELSE 0)
      m == apply_modifiers(w, check.modifiers, rate0)
      rate == Max(5, Min(95, m.rate))
  IN IF m.raised # None THEN [w EXCEPT !.c.raised = m.raised]
     ELSE [w EXCEPT !.c.rate = rate,
                    !.c.ret = <<IF roll <= rate THEN 1 ELSE 0, 0>>]

Modifier(t) == [type |-> t, flag |-> None, item |-> None, status |-> None,
                bonus |-> 0, penalty |-> 0]

SeenBonus == [Modifier("flag_bonus") EXCEPT !.flag = "seen", !.bonus = 10]
IncenseBonus ==
  [Modifier("item_bonus") EXCEPT !.item = "incense", !.bonus = 15]
PoisonPenalty ==
  [Modifier("status_penalty") EXCEPT !.status = "poison", !.penalty = -20]

StatBasedChecks ==
  {[type |-> "stat_based", base_rate |-> 40,
    formula |-> Formula("kinryoku", "-", 30),
    modifiers |-> <<SeenBonus, IncenseBonus, PoisonPenalty>>],
   [type |-> "stat_based", base_rate |-> 40,
    formula |-> Formula("focus", "//", 2),
    modifiers |-> <<SeenBonus, IncenseBonus>>],
   [type |-> "stat_based", base_rate |-> 10, formula |-> NoFormula,
    modifiers |-> <<PoisonPenalty>>],
   [type |-> "stat_based", base_rate |-> 40,
    formula |-> Formula("luck", "-", 1), modifiers |-> << >>]}

CheckRolls == {5, 60, 95}
CheckStrength == {10, 50}
Charmed ==
  << NewStatus([NoEffect EXCEPT !.type = "inflict_status",
                                !.status = "charm", !.duration = 2]) >>

InitChecks ==
  /\ player \in {[InitPlayer EXCEPT !.strength = x] : x \in CheckStrength}
  /\ inventory \in ConditionInventories
  /\ status_effects \in {<< >>, Poisoned, Charmed}
  /\ brands = << >>
  /\ battle_state = NoBattle
  /\ game_state = InitGameState
  /\ bind_state = NoBind
  /\ last = NoCall
  /\ flags \in ConditionFlags
  /\ action_system = InitActionSystem
  /\ enemies = InitEnemies
  /\ save_file = NoFile

CheckCustomSuccess ==
  /\ last.op = None
  /\ \E check \in StatBasedChecks, roll \in CheckRolls :
       Commit(check_stat_based(
                [Begin(World, "check_custom_success", check)
                   EXCEPT !.c.roll = roll], check, roll))

NextChecks == CheckCustomSuccess

SpecChecks == InitChecks /\ [][NextChecks]_vars

(* the bonuses and penalties of the modifiers that apply to the player *)
RECURSIVE C40_Modifiers(_)
C40_Modifiers(modifiers) ==
  IF modifiers = << >> THEN 0
  ELSE LET m == Head(modifiers) IN
       (CASE m.type = "flag_bonus" ->
               IF m.flag \in DOMAIN flags THEN m.bonus ELSE 0
          [] m.type = "item_bonus" ->
               IF InvCount(inventory, m.item) > 0 THEN m.bonus ELSE 0
          [] m.type = "status_penalty" ->
               IF \E i \in DOMAIN status_effects :
                    status_effects[i].id = m.status
               THEN m.penalty ELSE 0
          [] OTHER -> 0)
       + C40_Modifiers(Tail(modifiers))

C40_Rate(check) ==
  Max(5, Min(95, check.base_rate
                 + (IF check.formula # NoFormula
                    THEN evaluate_formula(World, check.formula) ELSE 0)
                 + C40_Modifiers(check.modifiers)))

(* C40: a stat_based success check completes without raising, with the    *)
(* rate clamp(base_rate + formula + flag and item bonuses that apply +     *)
(* penalties of the statuses the player has, 5, 95) and succeeds exactly   *)
(* when the roll is at most that rate, also for a player with active       *)
(* status effects.                                                         *)
C40_StatBasedRate ==
  last.op = "check_custom_success" =>
    /\ last.raised = None
    /\ last.rate = C40_Rate(last.arg)
    /\ (last.ret[1] = 1) <=> (last.roll <= last.rate)

====
